---- MODULE Spec2Model ----
(***************************************************************************)
(* A model of the compis front-end: the scanner (src/src/scanner.c), the   *)
(* scope stack (src/src/scope.c), the type-id encoder (src/src/typeid.c)   *)
(* and the Pratt parser with its name resolution (src/src/parser.c).       *)
(*                                                                         *)
(* Bytes are one-character strings, a symbol (sym_t) is the sequence of    *)
(* its bytes (interning makes pointer equality the same as equality of     *)
(* contents), and an AST node is an index into the heap of the parser.     *)
(***************************************************************************)
EXTENDS Integers, Sequences, FiniteSets, TLC

VARIABLES scn, par, uni, tim

vars == <<scn, par, uni, tim>>

\* The value of a variable that a specification does not use.
Idle == [idle |-> TRUE]

(***************************************************************************)
(* Bounds of the model.                                                    *)
(***************************************************************************)
\* Longest input, in bytes, handed to the scanner on its own.
MaxBytes == 5

\* All sequences over S of length at most n.
RECURSIVE SeqsUpTo(_, _)
SeqsUpTo(S, n) ==
  IF n = 0 THEN {<<>>}
  ELSE LET shorter == SeqsUpTo(S, n - 1)
       IN shorter \cup {Append(q, x) : q \in {r \in shorter : Len(r) = n - 1}, x \in S}

(***************************************************************************)
(* Bytes and their classes (ctype.h, as scanner.c uses it).                *)
(***************************************************************************)
LF == "\n"
NUL == "NUL"
Digits == {"0", "1", "2", "3", "4", "5", "6", "7", "8", "9"}
Lower == {"a", "b", "c", "d", "e", "f", "g", "h", "i", "j", "k", "l", "m",
          "n", "o", "p", "q", "r", "s", "t", "u", "v", "w", "x", "y", "z"}
Upper == {"A", "B", "C", "D", "E", "F", "G", "H", "I", "J", "K", "L", "M",
          "N", "O", "P", "Q", "R", "S", "T", "U", "V", "W", "X", "Y", "Z"}
\* Bytes >= 0x80 (UTF8_SELF): lead bytes of 2, 3 and 4 byte sequences, a
\* continuation byte, and a byte that is neither.
Utf8Lead2 == {"xC3"}
Utf8Lead3 == {"xE2"}
Utf8Lead4 == {"xF0"}
Utf8Cont == {"x80", "xA9"}
Utf8Bad == {"xFF"}
Utf8Bytes == Utf8Lead2 \cup Utf8Lead3 \cup Utf8Lead4 \cup Utf8Cont \cup Utf8Bad

isspace(c) == c \in {" ", LF, "\t", "\r"}
isdigit(c) == c \in Digits
isalpha(c) == c \in Lower \cup Upper
isalnum(c) == isalpha(c) \/ isdigit(c)
isutf8(c) == c \in Utf8Bytes

\* The value of a digit or letter in number(): '0'..'9', then 'A'/'a' = 10 ...
DigitOrder == <<"0", "1", "2", "3", "4", "5", "6", "7", "8", "9">>
LowerOrder == <<"a", "b", "c", "d", "e", "f", "g", "h", "i", "j", "k", "l", "m",
                "n", "o", "p", "q", "r", "s", "t", "u", "v", "w", "x", "y", "z">>
UpperOrder == <<"A", "B", "C", "D", "E", "F", "G", "H", "I", "J", "K", "L", "M",
                "N", "O", "P", "Q", "R", "S", "T", "U", "V", "W", "X", "Y", "Z">>
IndexOf(q, x) == CHOOSE i \in 1..Len(q) : q[i] = x
DigitValue(c) ==
  IF c \in Digits THEN IndexOf(DigitOrder, c) - 1
  ELSE IF c \in Upper THEN IndexOf(UpperOrder, c) + 9
  ELSE IndexOf(LowerOrder, c) + 9

\* The order of bytes as strcmp sees it, for the bytes a keyword lookup compares.
ByteOrder == <<NUL>> \o DigitOrder \o UpperOrder \o <<"_">> \o LowerOrder
              \o <<"x80", "xA9", "xC3", "xE2", "xF0", "xFF">>
ByteRank(c) == IndexOf(ByteOrder, c)

(***************************************************************************)
(* u64 arithmetic of number(): a u64 is four 16-bit limbs, least first.    *)
(***************************************************************************)
Limb == 65536
U64Zero == <<0, 0, 0, 0>>
U64Max == <<65535, 65535, 65535, 65535>>
U64FromSmall(n) == <<n, 0, 0, 0>>

\* a * m + c modulo 2^64, for small m and c.
U64MulAdd(a, m, c) ==
  LET t1 == a[1] * m + c
      t2 == a[2] * m + (t1 \div Limb)
      t3 == a[3] * m + (t2 \div Limb)
      t4 == a[4] * m + (t3 \div Limb)
  IN <<t1 % Limb, t2 % Limb, t3 % Limb, t4 % Limb>>

\* a / m and a % m for a small m.
U64DivMod(a, m) ==
  LET q4 == a[4] \div m
      r4 == a[4] % m
      q3 == (r4 * Limb + a[3]) \div m
      r3 == (r4 * Limb + a[3]) % m
      q2 == (r3 * Limb + a[2]) \div m
      r2 == (r3 * Limb + a[2]) % m
      q1 == (r2 * Limb + a[1]) \div m
      r1 == (r2 * Limb + a[1]) % m
  IN [quot |-> <<q1, q2, q3, q4>>, rem |-> r1]

U64Less(a, b) ==
  \/ a[4] < b[4]
  \/ a[4] = b[4] /\ a[3] < b[3]
  \/ a[4] = b[4] /\ a[3] = b[3] /\ a[2] < b[2]
  \/ a[4] = b[4] /\ a[3] = b[3] /\ a[2] = b[2] /\ a[1] < b[1]

U64LessEq(a, b) == a = b \/ U64Less(a, b)

(***************************************************************************)
(* The scanner, scanner.c.  A scanner is a record: input (the bytes), inp  *)
(* (index of the next byte; inend is one past the last), tok, insertsemi,  *)
(* tokstart, tokend, lineno, linestart, litint, litbuf, sym, and diag, the *)
(* diagnostics reported so far to the compiler's handler.                  *)
(***************************************************************************)
inend(s) == Len(s.input) + 1

\* *p for an index p.  The byte at inend lies outside the input: what a
\* read of it yields is not defined, and is the field pastend of the scanner.
At(s, i) ==
  IF i >= 1 /\ i <= Len(s.input) THEN s.input[i]
  ELSE IF i = Len(s.input) + 1 THEN s.pastend
  ELSE NUL

\* tokens.h KEYWORD entries, sorted as scanner_init requires.
keywordtab == << <<"e", "l", "s", "e">>, <<"f", "o", "r">>, <<"f", "u", "n">>,
                 <<"i", "f">>, <<"l", "e", "t">>, <<"m", "u", "t">>,
                 <<"r", "e", "t", "u", "r", "n">>, <<"t", "y", "p", "e">>,
                 <<"v", "a", "r">> >>
KeywordTok(kw) ==
  CASE kw = <<"e", "l", "s", "e">> -> "ELSE"
    [] kw = <<"f", "o", "r">> -> "FOR"
    [] kw = <<"f", "u", "n">> -> "FUN"
    [] kw = <<"i", "f">> -> "IF"
    [] kw = <<"l", "e", "t">> -> "LET"
    [] kw = <<"m", "u", "t">> -> "MUT"
    [] kw = <<"r", "e", "t", "u", "r", "n">> -> "RETURN"
    [] kw = <<"t", "y", "p", "e">> -> "TYPE"
    [] kw = <<"v", "a", "r">> -> "VAR"

scanner_init ==
  [input |-> <<>>, pastend |-> NUL, inp |-> 1, tok |-> "EOF", insertsemi |-> FALSE,
   tokstart |-> 1, tokend |-> 1, lineno |-> 0, linestart |-> 1,
   locline |-> 0, loccol |-> 0, litint |-> U64Zero, litbuf |-> <<>>,
   sym |-> <<>>, litlenoffs |-> 0, diag |-> <<>>]

scanner_set_input(s, input, pastend) ==
  [s EXCEPT !.input = input, !.pastend = pastend, !.inp = 1, !.linestart = 1,
            !.locline = 1, !.loccol = 1, !.lineno = 1]

stop_scanning(s) == [s EXCEPT !.inp = inend(s), !.tok = "EOF"]

scanner_lit(s) ==
  [i \in 1..(s.inp - s.tokstart - s.litlenoffs) |-> At(s, s.tokstart + i - 1)]

\* error() of scanner.c: report the diagnostic, then stop scanning.
scan_error(s, msg) == stop_scanning([s EXCEPT !.diag = Append(@, msg)])

newline(s) == [s EXCEPT !.lineno = @ + 1, !.linestart = s.inp + 1]

\* The loop of floatnumber(): allowsign is threaded through the iterations.
RECURSIVE floatnumber_loop(_, _, _)
floatnumber_loop(s, base, allowsign) ==
  IF s.inp = inend(s) THEN s
  ELSE LET c == At(s, s.inp)
           push(a) == floatnumber_loop(
                        [s EXCEPT !.litbuf = Append(@, c), !.inp = @ + 1], base, a)
       IN CASE c \in {"E", "e"} -> push(TRUE)
            [] c \in {"P", "p"} -> IF base < 16 THEN s ELSE push(TRUE)
            [] c \in {"+", "-"} -> IF ~allowsign THEN s ELSE push(allowsign)
            [] c = "_" -> floatnumber_loop([s EXCEPT !.inp = @ + 1], base, allowsign)
            [] c = "." -> push(FALSE)
            [] OTHER -> IF ~isalnum(c) THEN s ELSE push(FALSE)

floatnumber(s, base) ==
  LET s0 == [s EXCEPT !.tok = "FLOATLIT",
                      !.litbuf = IF base = 16 THEN <<"0", "x">> ELSE <<>>]
  IN floatnumber_loop(s0, base, FALSE)

\* The loop of number(): acc, any and c are threaded through the iterations;
\* the result is the scanner with the three as fields acc, any, c, and with
\* how the loop ended: "end" (fell out or goto end), "float", "invalid".
RECURSIVE number_loop(_, _, _, _, _, _)
number_loop(s, base, start_inp, acc, any, c) ==
  LET cut == U64DivMod(U64Max, base)
      cutoff == cut.quot
      cutlim == cut.rem
      advance(a, n) ==
        LET s1 == [s EXCEPT !.inp = @ + 1]
        IN number_loop(s1, base, start_inp, a, n, At(s1, s1.inp))
      digit(d) ==
        IF d >= base THEN [s |-> s, how |-> "invalid", acc |-> acc, any |-> any, c |-> c]
        ELSE IF any < 0 \/ U64Less(cutoff, acc) \/ (acc = cutoff /\ d > cutlim)
             THEN advance(acc, -1)
             ELSE advance(U64MulAdd(acc, base, d), 1)
  IN IF s.inp = inend(s)
     THEN [s |-> s, how |-> "end", acc |-> acc, any |-> any, c |-> c]
     ELSE CASE isalnum(c) -> digit(DigitValue(c))
            [] c = "_" -> advance(acc, any)
            [] c = "." ->
                 IF base = 10 \/ base = 16
                 THEN [s |-> [s EXCEPT !.inp = start_inp], how |-> "float",
                       acc |-> acc, any |-> any, c |-> c]
                 ELSE digit(base)
            [] OTHER -> [s |-> s, how |-> "end", acc |-> acc, any |-> any, c |-> c]

number(s, base) ==
  LET s0 == [s EXCEPT !.tok = "INTLIT", !.insertsemi = TRUE, !.litint = U64Zero]
      r == number_loop(s0, base, s0.inp, U64Zero, 0, At(s0, s0.inp))
  IN CASE r.how = "float" -> floatnumber(r.s, base)
       [] r.how = "invalid" -> scan_error(r.s, "invalid base-N integer literal")
       [] OTHER ->
            LET s1 == [r.s EXCEPT !.litint = r.acc]
                s2 == IF r.any < 0 THEN scan_error(s1, "integer literal too large") ELSE s1
            IN IF r.c = "_" THEN scan_error(s2, "trailing _ after integer literal") ELSE s2

zeronumber(s) ==
  LET c == At(s, s.inp)
  IN IF s.inp < inend(s) /\ c \in {"X", "x"} THEN number([s EXCEPT !.inp = @ + 1], 16)
     ELSE IF s.inp < inend(s) /\ c \in {"B", "b"} THEN number([s EXCEPT !.inp = @ + 1], 2)
     ELSE IF s.inp < inend(s) /\ c \in {"O", "o"} THEN number([s EXCEPT !.inp = @ + 1], 8)
     ELSE number(s, 10)

\* utf8seq(): the result is the scanner, advanced, with ok, the bool returned.
utf8seq(s) ==
  LET a == At(s, s.inp)
      b1 == At(s, s.inp + 1)
      b2 == At(s, s.inp + 2)
      b3 == At(s, s.inp + 3)
      islead == a \in Utf8Lead2 \cup Utf8Lead3 \cup Utf8Lead4 \cup Utf8Bad
      at(n, ok) == [s |-> [s EXCEPT !.inp = @ + n], ok |-> ok]
  IN IF ~islead \/ b1 \notin Utf8Cont THEN at(1, FALSE)
     ELSE IF b1 = NUL THEN at(2, FALSE)
     ELSE IF a \in Utf8Lead2 THEN at(2, TRUE)
     ELSE IF b2 = NUL THEN at(3, FALSE)
     ELSE IF a \in Utf8Lead3 THEN at(3, TRUE)
     ELSE IF b3 = NUL THEN at(4, FALSE)
     ELSE IF a \in Utf8Lead4 THEN at(4, TRUE)
     ELSE at(4, FALSE)

intern_identifier(s) == [s EXCEPT !.sym = scanner_lit(s)]

RECURSIVE identifier_utf8(_)
identifier_utf8(s) ==
  LET c == At(s, s.inp)
      done == intern_identifier([s EXCEPT !.tok = "ID"])
  IN IF s.inp >= inend(s) THEN done
     ELSE IF isutf8(c)
          THEN LET r == utf8seq(s)
               IN IF ~r.ok THEN scan_error(r.s, "invalid UTF8 sequence")
                  ELSE identifier_utf8(r.s)
          ELSE IF isalnum(c) \/ c = "_" THEN identifier_utf8([s EXCEPT !.inp = @ + 1])
          ELSE done

\* strncmp(a, b, n) for a of length n and a NUL-terminated b: <0, 0 or >0.
RECURSIVE strncmp(_, _, _, _)
strncmp(a, b, n, i) ==
  IF i > n THEN 0
  ELSE LET x == a[i]
           y == IF i <= Len(b) THEN b[i] ELSE NUL
       IN IF x # y THEN ByteRank(x) - ByteRank(y)
          ELSE IF y = NUL THEN 0
          ELSE strncmp(a, b, n, i + 1)

RECURSIVE maybe_keyword_search(_, _, _)
maybe_keyword_search(s, low, high) ==
  IF low >= high THEN s
  ELSE LET mid == (low + high) \div 2
           lit == scanner_lit(s)
           cmp == strncmp(lit, keywordtab[mid + 1], Len(lit), 1)
       IN IF cmp = 0 THEN [s EXCEPT !.tok = KeywordTok(keywordtab[mid + 1])]
          ELSE IF cmp < 0 THEN maybe_keyword_search(s, low, mid)
          ELSE maybe_keyword_search(s, mid + 1, high)

maybe_keyword(s) == maybe_keyword_search(s, 0, Len(keywordtab))

RECURSIVE identifier(_)
identifier(s) ==
  LET c == At(s, s.inp)
  IN IF s.inp < inend(s) /\ (isalnum(c) \/ c = "_")
     THEN identifier([s EXCEPT !.inp = @ + 1])
     ELSE IF s.inp < inend(s) /\ isutf8(c) THEN identifier_utf8(s)
     ELSE maybe_keyword(intern_identifier([s EXCEPT !.tok = "ID", !.insertsemi = TRUE]))

\* The two loops of skip_comment().
RECURSIVE skip_line_comment(_)
skip_line_comment(s) ==
  IF s.inp < inend(s) /\ At(s, s.inp) # LF
  THEN skip_line_comment([s EXCEPT !.inp = @ + 1])
  ELSE s

RECURSIVE skip_block_comment(_, _)
skip_block_comment(s, startstar) ==
  IF s.inp >= inend(s) THEN s
  ELSE IF At(s, s.inp) = LF
       THEN skip_block_comment([newline(s) EXCEPT !.inp = @ + 1], startstar)
       ELSE IF At(s, s.inp) = "/" /\ At(s, s.inp - 1) = "*" /\ s.inp - 1 # startstar
            THEN [s EXCEPT !.inp = @ + 1]
            ELSE skip_block_comment([s EXCEPT !.inp = @ + 1], startstar)

skip_comment(s) ==
  IF At(s, s.inp + 1) = "/"
  THEN skip_line_comment([s EXCEPT !.inp = @ + 2])
  ELSE LET s1 == [s EXCEPT !.inp = @ + 2]
       IN skip_block_comment(s1, s1.inp - 1)

\* The one-byte tokens of scan1(), and those among them that set insertsemi.
Punct ==
  [c \in {"(", ")", "{", "}", "[", "]", ";", ",", "+", "*", "%", "&", "|", "^",
          "~", "#", "<", ">"} |->
     CASE c = "(" -> "LPAREN" [] c = ")" -> "RPAREN" [] c = "{" -> "LBRACE"
       [] c = "}" -> "RBRACE" [] c = "[" -> "LBRACK" [] c = "]" -> "RBRACK"
       [] c = ";" -> "SEMI" [] c = "," -> "COMMA" [] c = "+" -> "PLUS"
       [] c = "*" -> "STAR" [] c = "%" -> "PERCENT" [] c = "&" -> "AND"
       [] c = "|" -> "OR" [] c = "^" -> "XOR" [] c = "~" -> "TILDE"
       [] c = "#" -> "HASH" [] c = "<" -> "LT" [] c = ">" -> "GT"]
Closers == {")", "}", "]"}

skip_whitespace(s) ==
  LET RECURSIVE loop(_)
      loop(t) == IF t.inp < inend(t) /\ isspace(At(t, t.inp))
                 THEN loop([(IF At(t, t.inp) = LF THEN newline(t) ELSE t)
                              EXCEPT !.inp = @ + 1])
                 ELSE t
  IN loop(s)

RECURSIVE scan0(_)
RECURSIVE scan1(_)

scan1(s) ==
  LET s0 == [s EXCEPT !.tokstart = s.inp, !.locline = s.lineno,
                      !.loccol = s.inp - s.linestart + 1]
      insertsemi == s0.insertsemi
      c == At(s0, s0.inp)
      s1 == [s0 EXCEPT !.insertsemi = FALSE, !.inp = @ + 1]
      n == At(s1, s1.inp)
      more == s1.inp < inend(s1)
  IN CASE c \in DOMAIN Punct ->
            [s1 EXCEPT !.tok = Punct[c], !.insertsemi = c \in Closers]
       [] c = "=" ->
            IF more /\ n = "=" THEN [s1 EXCEPT !.inp = @ + 1, !.tok = "EQ"]
            ELSE [s1 EXCEPT !.tok = "ASSIGN"]
       [] c = "0" -> zeronumber(s1)
       [] c = "." ->
            IF more /\ isdigit(n) THEN floatnumber([s1 EXCEPT !.inp = @ - 1], 10)
            ELSE IF more /\ n = "."
                 THEN IF s1.inp + 1 < inend(s1) /\ At(s1, s1.inp + 1) = "."
                      THEN [s1 EXCEPT !.inp = @ + 2, !.tok = "DOTDOTDOT"]
                      ELSE [s1 EXCEPT !.inp = @ + 1, !.tok = "DOTDOT"]
                 ELSE [s1 EXCEPT !.tok = "DOT"]
       [] c = "/" ->
            IF more /\ n \in {"/", "*"}
            THEN scan0(skip_comment([s1 EXCEPT !.inp = @ - 1, !.insertsemi = insertsemi]))
            ELSE [s1 EXCEPT !.tok = "SLASH"]
       [] OTHER ->
            IF isdigit(c) THEN number([s1 EXCEPT !.inp = @ - 1], 10)
            ELSE IF isutf8(c) THEN identifier_utf8([s1 EXCEPT !.inp = @ - 1])
            ELSE IF isalpha(c) \/ c = "_" THEN identifier(s1)
            ELSE stop_scanning(scan_error(s1, "unexpected input byte"))

\* scan0 without the implicit semicolon at the end of the input.
scan0_NoSemiAtEnd(s) ==
  LET s0 == [s EXCEPT !.litlenoffs = 0]
      prev_lineno == s0.lineno
      prev_linestart == s0.linestart
      s1 == skip_whitespace(s0)
  IN IF prev_linestart # s1.linestart /\ s1.insertsemi
     THEN [s1 EXCEPT !.insertsemi = FALSE, !.tokstart = prev_linestart,
                     !.tok = "SEMI", !.locline = prev_lineno,
                     !.loccol = s1.tokend - prev_linestart + 1]
     ELSE IF s1.inp >= inend(s1)
          THEN [s1 EXCEPT !.tokstart = inend(s1), !.tok = "EOF",
                          !.locline = s1.lineno,
                          !.loccol = inend(s1) - s1.linestart + 1]
          ELSE scan1(s1)

scan0(s) ==
  LET s0 == [s EXCEPT !.litlenoffs = 0]
      prev_lineno == s0.lineno
      prev_linestart == s0.linestart
      s1 == skip_whitespace(s0)
  IN IF prev_linestart # s1.linestart /\ s1.insertsemi
     THEN [s1 EXCEPT !.insertsemi = FALSE, !.tokstart = prev_linestart,
                     !.tok = "SEMI", !.locline = prev_lineno,
                     !.loccol = s1.tokend - prev_linestart + 1]
     ELSE IF s1.inp >= inend(s1)
          THEN LET s2 == [s1 EXCEPT !.tokstart = inend(s1), !.tok = "EOF",
                                    !.locline = s1.lineno,
                                    !.loccol = inend(s1) - s1.linestart + 1]
               IN IF s2.insertsemi
                  THEN [s2 EXCEPT !.tok = "SEMI", !.insertsemi = FALSE]
                  ELSE s2
          ELSE scan1(s1)

scanner_next(s) == scan0([s EXCEPT !.tokend = s.inp])

(***************************************************************************)
(* The scanner on its own: scanner_set_input on an input, then calls of    *)
(* scanner_next.  scn.s is the scanner, scn.pre the scanner as it was      *)
(* before the last call, scn.toks the tokens returned so far.              *)
(***************************************************************************)
\* Bytes of the inputs of the scanner specification.
ScanBytes == {"a", "+", LF, " ", "/", "*", ";"}
\* What a read of the byte at inend may yield.
PastEnd == {NUL, "_"}
\* Calls of scanner_next made after it has returned EOF.
MaxEofs == 2

ScanInputs == SeqsUpTo(ScanBytes, MaxBytes)

InitScan ==
  /\ scn = [phase |-> "init", s |-> scanner_init, pre |-> scanner_init,
            toks |-> <<>>, eofs |-> 0]
  /\ par = Idle
  /\ uni = Idle
  /\ tim = Idle

ScannerSetInput ==
  /\ scn.phase = "init"
  /\ \E input \in ScanInputs, pastend \in PastEnd :
       scn' = [scn EXCEPT !.phase = "scanning",
                          !.s = scanner_set_input(scn.s, input, pastend),
                          !.pre = scanner_set_input(scn.s, input, pastend)]
  /\ UNCHANGED <<par, uni, tim>>

ScannerNext ==
  /\ scn.phase = "scanning"
  /\ scn.eofs < MaxEofs
  /\ LET s1 == scanner_next(scn.s)
     IN scn' = [scn EXCEPT !.s = s1, !.pre = scn.s,
                           !.toks = Append(@, s1.tok),
                           !.eofs = @ + (IF s1.tok = "EOF" THEN 1 ELSE 0)]
  /\ UNCHANGED <<par, uni, tim>>

NextScan == ScannerSetInput \/ ScannerNext

SpecScan == InitScan /\ [][NextScan]_vars

(***************************************************************************)
(* Implicit semicolons.                                                    *)
(***************************************************************************)
\* The token of scanner s is a SEMI that no ';' byte of the input stands for.
Synthesized(s) ==
  /\ s.tok = "SEMI"
  /\ ~(s.tokstart <= Len(s.input) /\ s.input[s.tokstart] = ";" /\ s.inp = s.tokstart + 1)

IsCommentStart(input, i) ==
  i + 1 <= Len(input) /\ input[i] = "/" /\ input[i + 1] \in {"/", "*"}

\* The index after the comment that starts at byte i of input.
CommentEnd(input, i) ==
  LET n == Len(input)
      ends == IF input[i + 1] = "/"
              THEN {j \in (i + 2)..n : input[j] = LF}
              ELSE {j + 1 : j \in {k \in (i + 3)..n : input[k] = "/" /\ input[k - 1] = "*"}}
  IN IF ends = {} THEN n + 1 ELSE CHOOSE j \in ends : \A k \in ends : j <= k

\* What follows byte i - 1 of input, skipping white space and comments:
\* "newline" if a run of white space crosses a newline, else "end" if the
\* input ends, else "token".  crossed: the run at hand has crossed a newline.
RECURSIVE GapKind(_, _, _)
GapKind(input, i, crossed) ==
  IF i > Len(input) THEN (IF crossed THEN "newline" ELSE "end")
  ELSE IF isspace(input[i]) THEN GapKind(input, i + 1, crossed \/ input[i] = LF)
  ELSE IF crossed THEN "newline"
  ELSE IF IsCommentStart(input, i) THEN GapKind(input, CommentEnd(input, i), FALSE)
  ELSE "token"

\* The gap that the last call of scanner_next looked at.
LastGap == GapKind(scn.pre.input, scn.pre.inp, FALSE)
Called == scn.phase = "scanning" /\ Len(scn.toks) > 0

IsPrefix(p, q) == Len(p) <= Len(q) /\ SubSeq(q, 1, Len(p)) = p

\* C10 as stated: scanner_next synthesizes a SEMI exactly when the white
\* space skipped before the next token crossed a newline and the insert-semi
\* flag was set by the previous token.
C10_OnlyAtNewline ==
  Called => (Synthesized(scn.s) <=> (scn.pre.insertsemi /\ LastGap = "newline"))

\* C10, amended: scanner_next synthesizes a SEMI exactly when the insert-semi
\* flag is set and the white space skipped crossed a newline or reached the
\* end of the input; it never synthesizes two in a row, so one at most per
\* gap; ID newline ID scans as ID SEMI ID, and ID + newline ID as ID + ID.
C10_ImplicitSemi ==
  /\ Called =>
       /\ Synthesized(scn.s) <=> (scn.pre.insertsemi /\ LastGap \in {"newline", "end"})
       /\ Len(scn.toks) > 1 /\ Synthesized(scn.pre) => ~Synthesized(scn.s)
  /\ scn.phase = "scanning" /\ scn.s.input = <<"a", LF, "a">> =>
       \/ IsPrefix(scn.toks, <<"ID", "SEMI", "ID">>)
       \/ IsPrefix(<<"ID", "SEMI", "ID">>, scn.toks)
  /\ scn.phase = "scanning" /\ scn.s.input = <<"a", "+", LF, "a">> =>
       \/ IsPrefix(scn.toks, <<"ID", "PLUS", "ID">>)
       \/ IsPrefix(<<"ID", "PLUS", "ID">>, scn.toks)

\* A SEMI synthesized at a newline between two identifiers.
C10_Witness ==
  /\ Called
  /\ Synthesized(scn.s)
  /\ scn.pre.tok = "ID"
  /\ LastGap = "newline"
  /\ scn.s.inp <= Len(scn.s.input)

(***************************************************************************)
(* The scanner on inputs made of lexemes: keywords, identifiers that are   *)
(* prefixes and extensions of keywords, identifiers with UTF-8 bytes,      *)
(* literals, brackets, and bytes that no token starts with.                *)
(***************************************************************************)
LexWords ==
  {keywordtab[i] : i \in 1..Len(keywordtab)} \cup
  { <<"t", "h", "i", "s">>, <<"f">>, <<"r", "e">>, <<"l", "e">>, <<"t", "y">>,
    <<"f", "u", "n", "x">>, <<"a">>, <<"xC3", "xA9">>, <<"a", "xC3", "xA9">>,
    <<"xC3">>, <<"xFF">> }

\* 0xfffffffffffffffff, an integer literal beyond 64 bits.
LexTooLarge == <<"0", "x", "f", "f", "f", "f", "f", "f", "f", "f", "f", "f", "f",
                 "f", "f", "f", "f", "f", "f">>

LexNumbers ==
  { <<"1">>, <<"0", "x", "1", "f">>, <<"0", "x", "1", "f", "_">>, <<"1", "_", "0">>,
    <<"1", "_">>, <<".", "5">>, <<"1", ".", "5">>, <<"0", "b", "2">>, LexTooLarge }

LexOthers ==
  { <<"(">>, <<")">>, <<"[">>, <<"]">>, <<"{">>, <<"}">>, <<"+">>, <<";">>, <<".">>,
    <<"=">>, <<"$">>, <<" ">>, <<LF>>, <<>> }

LexPieces == LexWords \cup LexNumbers \cup LexOthers

\* The inputs: two lexemes, one after the other.
LexInputs == {a \o b : a \in LexPieces, b \in LexPieces}

LexSetInput ==
  /\ scn.phase = "init"
  /\ \E input \in LexInputs, pastend \in PastEnd :
       scn' = [scn EXCEPT !.phase = "scanning",
                          !.s = scanner_set_input(scn.s, input, pastend),
                          !.pre = scanner_set_input(scn.s, input, pastend)]
  /\ UNCHANGED <<par, uni, tim>>

NextLex == LexSetInput \/ ScannerNext

SpecLex == InitScan /\ [][NextLex]_vars

\* The bytes of the token of the scanner.
Lexeme == scanner_lit(scn.s)

(***************************************************************************)
(* The tokens that set the insert-semi flag.                               *)
(***************************************************************************)
EndsStatement == {"RPAREN", "RBRACK", "RBRACE", "ID", "INTLIT", "FLOATLIT", "RETURN"}
Keywords == {keywordtab[i] : i \in 1..Len(keywordtab)}
KeywordToks == {KeywordTok(kw) : kw \in Keywords}
\* scanner_next has returned a token without an error, and if the token is a
\* keyword, then its lexeme is that keyword.
Scanned ==
  /\ Called
  /\ scn.s.diag = <<>>
  /\ scn.s.tok \in KeywordToks => Lexeme \in Keywords

\* C11: after scanner_next has returned a token, the insert-semi flag is set
\* if and only if the token is ")", "]", "}", an identifier, a numeric
\* literal or the keyword return.
C11_InsertSemiTokens ==
  Scanned => (scn.s.insertsemi <=> scn.s.tok \in EndsStatement)

\* What the code does: the flag is set by the closing brackets, by integer
\* literals and floating-point literals that start with a digit, and by every
\* identifier and keyword spelled with ASCII bytes only.
C11_FlagAsCoded ==
  Called /\ scn.s.diag = <<>> /\ ~Synthesized(scn.s) /\ scn.s.tok # "EOF" =>
    (scn.s.insertsemi <=>
       \/ scn.s.tok \in {"RPAREN", "RBRACK", "RBRACE", "INTLIT"}
       \/ scn.s.tok = "FLOATLIT" /\ Lexeme[1] # "."
       \/ scn.s.tok \in {"ID"} \cup KeywordToks
            /\ \A i \in 1..Len(Lexeme) : ~isutf8(Lexeme[i]))

(***************************************************************************)
(* Lexical errors.                                                         *)
(***************************************************************************)
\* C12: once the scanner has reported a lexical error, the current token is
\* EOF, and every later call of scanner_next yields EOF: no token, and no
\* synthesized SEMI, follows the error.
C12_EofAfterError ==
  Called /\ scn.s.diag # <<>> => scn.s.tok = "EOF"

\* The errors that identifier_utf8 and scan1 report do halt the scanner: the
\* token is EOF from then on.
C12_EofAfterOtherErrors ==
  Called /\ scn.s.diag # <<>>
         /\ scn.s.diag[1] \in {"invalid UTF8 sequence", "unexpected input byte"} =>
    scn.s.tok = "EOF"

\* The index after the digits, letters and underscores that input starts with.
LitEnd(input) ==
  CHOOSE j \in 1..(Len(input) + 1) :
    /\ \A i \in 1..(j - 1) : isalnum(input[i]) \/ input[i] = "_"
    /\ j <= Len(input) => ~(isalnum(input[j]) \/ input[j] = "_")

\* The input starts with an integer literal: a digit first, and no "." after
\* the digits, letters and underscores.
StartsWithInt(input) ==
  /\ Len(input) >= 1
  /\ isdigit(input[1])
  /\ ~(LitEnd(input) <= Len(input) /\ input[LitEnd(input)] = ".")

TrailingUnderscore(input) == input[LitEnd(input) - 1] = "_"

\* scanner_next has been called once, on an input that starts with an
\* integer literal.
ScannedInt == Called /\ Len(scn.toks) = 1 /\ StartsWithInt(scn.s.input)

ReportedTrailing ==
  \E i \in 1..Len(scn.s.diag) : scn.s.diag[i] = "trailing _ after integer literal"

\* C13: an integer literal whose last character is an underscore makes the
\* scanner report the trailing-underscore error, whatever follows the
\* literal.
C13_TrailingUnderscore ==
  ScannedInt /\ TrailingUnderscore(scn.s.input) => ReportedTrailing

\* What the code does: the error is reported exactly when the literal runs to
\* the end of the input and the byte after the input is an underscore.
C13_TrailingAsCoded ==
  ScannedInt =>
    (ReportedTrailing <=>
       /\ LitEnd(scn.s.input) = Len(scn.s.input) + 1
       /\ scn.s.pastend = "_"
       /\ scn.s.diag[1] # "invalid base-N integer literal")

(***************************************************************************)
(* Keywords.                                                               *)
(***************************************************************************)
\* The token was scanned by identifier() to its end: its lexeme starts with a
\* letter or "_" and has letters, digits and "_" only.
AsciiIdentifier ==
  /\ Called
  /\ scn.s.diag = <<>>
  /\ Len(Lexeme) > 0
  /\ isalpha(Lexeme[1]) \/ Lexeme[1] = "_"
  /\ \A i \in 1..Len(Lexeme) : isalnum(Lexeme[i]) \/ Lexeme[i] = "_"

\* C14: an ASCII identifier is reclassified to a keyword if and only if its
\* whole lexeme is equal to an entry of the keyword table, and then to that
\* entry's token; proper prefixes of keywords and extensions of keywords
\* stay ID.
C14_KeywordIffWholeLexeme ==
  AsciiIdentifier =>
    IF Lexeme \in Keywords THEN scn.s.tok = KeywordTok(Lexeme) ELSE scn.s.tok = "ID"

\* What holds of the code: a lexeme that is no prefix of a keyword stays ID,
\* and a keyword is reclassified to its own token.
C14_NonPrefixStaysId ==
  AsciiIdentifier =>
    /\ Lexeme \in Keywords => scn.s.tok = KeywordTok(Lexeme)
    /\ (\A kw \in Keywords : ~IsPrefix(Lexeme, kw)) => scn.s.tok = "ID"

(***************************************************************************)
(* universe() and parser_init(), parser.c.  Threads call parser_init, each *)
(* call runs universe() step by step; a thread whose parser is initialized *)
(* reads the universe map through pkgdefs.parent.                          *)
(*                                                                         *)
(* uni.m is the static map m (the keys assigned so far), uni.ninit counts  *)
(* the runs of map_init, uni.ncalls the calls of universe(), and uni.late  *)
(* the writes to m made by a call that was not the first.  uni.partial:    *)
(* a reader has seen the map with entries missing.                         *)
(***************************************************************************)
Threads == {1, 2}
\* Calls of parser_init per thread.
MaxInitCalls == 2

\* The keys of entries[] in universe(), in order.
universe_entries ==
  <<"void", "bool", "int", "uint", "i8", "i16", "i32", "i64",
    "u8", "u16", "u32", "u64", "f32", "f64", "true", "false">>
UniverseKeys == {universe_entries[i] : i \in 1..Len(universe_entries)}

InitUniverse ==
  /\ uni = [m |-> {}, ninit |-> 0, ncalls |-> 0, late |-> 0, partial |-> FALSE,
            th |-> [t \in Threads |->
                      [pc |-> "idle", init |-> 0, i |-> 0, callno |-> 0,
                       calls |-> 0, ready |-> FALSE]]]
  /\ scn = Idle
  /\ par = Idle
  /\ tim = Idle

\* parser_init up to its call of universe(); "_Atomic(usize) init = 0" is a
\* local of universe(), set to 0 at every call.
ParserInitCall(t) ==
  /\ uni.th[t].pc = "idle"
  /\ uni.th[t].calls < MaxInitCalls
  /\ uni' = [uni EXCEPT !.ncalls = @ + 1,
                        !.th[t] = [@ EXCEPT !.pc = "check", !.init = 0,
                                            !.callno = uni.ncalls + 1,
                                            !.calls = @ + 1, !.ready = FALSE]]
  /\ UNCHANGED <<scn, par, tim>>

\* if (init++) return &m;
UniverseCheck(t) ==
  /\ uni.th[t].pc = "check"
  /\ uni' = [uni EXCEPT !.th[t] = [@ EXCEPT !.init = @ + 1,
                                            !.pc = IF uni.th[t].init # 0
                                                   THEN "return" ELSE "map_init"]]
  /\ UNCHANGED <<scn, par, tim>>

\* memalloc_bump on the static storage and map_init(&m, ...): m is empty again.
UniverseMapInit(t) ==
  /\ uni.th[t].pc = "map_init"
  /\ uni' = [uni EXCEPT !.m = {}, !.ninit = @ + 1,
                        !.late = @ + (IF uni.th[t].callno > 1 THEN 1 ELSE 0),
                        !.th[t] = [@ EXCEPT !.pc = "assign", !.i = 0]]
  /\ UNCHANGED <<scn, par, tim>>

\* One iteration of the loop over entries[], or its end.
UniverseAssign(t) ==
  /\ uni.th[t].pc = "assign"
  /\ IF uni.th[t].i < Len(universe_entries)
     THEN uni' = [uni EXCEPT !.m = @ \cup {universe_entries[uni.th[t].i + 1]},
                            !.late = @ + (IF uni.th[t].callno > 1 THEN 1 ELSE 0),
                            !.th[t] = [@ EXCEPT !.i = @ + 1]]
     ELSE uni' = [uni EXCEPT !.th[t] = [@ EXCEPT !.pc = "return"]]
  /\ UNCHANGED <<scn, par, tim>>

\* p->pkgdefs.parent = universe(); and the rest of parser_init.
ParserInitReturn(t) ==
  /\ uni.th[t].pc = "return"
  /\ uni' = [uni EXCEPT !.th[t] = [@ EXCEPT !.pc = "idle", !.ready = TRUE]]
  /\ UNCHANGED <<scn, par, tim>>

\* A lookup of an initialized parser that reaches pkgdefs.parent.
UniverseRead(t) ==
  /\ uni.th[t].pc = "idle"
  /\ uni.th[t].ready
  /\ uni' = [uni EXCEPT !.partial = @ \/ uni.m # UniverseKeys]
  /\ UNCHANGED <<scn, par, tim>>

NextUniverse ==
  \E t \in Threads :
    \/ ParserInitCall(t)
    \/ UniverseCheck(t)
    \/ UniverseMapInit(t)
    \/ UniverseAssign(t)
    \/ ParserInitReturn(t)
    \/ UniverseRead(t)

SpecUniverse == InitUniverse /\ [][NextUniverse]_vars

\* C6: across all parser_init calls the universe map is initialized exactly
\* once: map_init runs in the first call of universe() only, a later call
\* writes nothing to the map, and no reader sees the map with entries missing.
C6_UniverseInitOnce ==
  /\ uni.ninit <= 1
  /\ uni.late = 0
  /\ ~uni.partial

(***************************************************************************)
(* funtype() of two parsers that share one compiler, parser.c: the steps   *)
(* of funtype between its reads and writes of c->typeidmap.                *)
(*                                                                         *)
(* tim.map is c->typeidmap (tid -> node, 0 for a NULL entry), tim.nodes    *)
(* the number of nodes allocated, tim.installed the nodes ever stored      *)
(* under each tid, tim.p the parsers: pc, the tid at hand, the node built, *)
(* and ret, the node returned by the last funtype call for each tid.       *)
(***************************************************************************)
Parsers == {1, 2}
Tids == {"F0v", "F1ii"}
\* Calls of funtype per parser.
MaxFunTypes == 2
NULL == 0

InitIntern ==
  /\ tim = [map |-> [k \in {} |-> NULL], nodes |-> 0,
            installed |-> [k \in Tids |-> {}],
            p |-> [q \in Parsers |->
                     [pc |-> "idle", tid |-> "", ft |-> NULL, calls |-> 0,
                      ret |-> [k \in Tids |-> NULL]]]]
  /\ scn = Idle
  /\ par = Idle
  /\ uni = Idle

\* typeid_fun, then map_assign_ptr in _typeidmap_assign: the entry of tid is
\* created, NULL, when absent.
FunTypeAssignSlot(q) ==
  /\ tim.p[q].pc = "idle"
  /\ tim.p[q].calls < MaxFunTypes
  /\ \E tid \in Tids :
       tim' = [tim EXCEPT !.map = IF tid \in DOMAIN tim.map THEN @
                                  ELSE @ @@ (tid :> NULL),
                          !.p[q] = [@ EXCEPT !.pc = "check", !.tid = tid,
                                             !.calls = @ + 1]]
  /\ UNCHANGED <<scn, par, uni>>

\* if (*typeidmap_slot) return *typeidmap_slot;
FunTypeCheckSlot(q) ==
  /\ tim.p[q].pc = "check"
  /\ LET tid == tim.p[q].tid
     IN IF tim.map[tid] # NULL
        THEN tim' = [tim EXCEPT !.p[q] = [@ EXCEPT !.pc = "idle",
                                                   !.ret[tid] = tim.map[tid]]]
        ELSE tim' = [tim EXCEPT !.p[q] = [@ EXCEPT !.pc = "build"]]
  /\ UNCHANGED <<scn, par, uni>>

\* mknode(p, funtype_t, TYPE_FUN) and the filling in of its fields.
FunTypeBuild(q) ==
  /\ tim.p[q].pc = "build"
  /\ tim' = [tim EXCEPT !.nodes = @ + 1,
                        !.p[q] = [@ EXCEPT !.pc = "install", !.ft = tim.nodes + 1]]
  /\ UNCHANGED <<scn, par, uni>>

\* *typeidmap_slot = ft; return ft;
FunTypeInstall(q) ==
  /\ tim.p[q].pc = "install"
  /\ LET tid == tim.p[q].tid
         ft == tim.p[q].ft
     IN tim' = [tim EXCEPT !.map[tid] = ft,
                           !.installed[tid] = @ \cup {ft},
                           !.p[q] = [@ EXCEPT !.pc = "idle", !.ret[tid] = ft]]
  /\ UNCHANGED <<scn, par, uni>>

NextIntern ==
  \E q \in Parsers :
    \/ FunTypeAssignSlot(q)
    \/ FunTypeCheckSlot(q)
    \/ FunTypeBuild(q)
    \/ FunTypeInstall(q)

SpecIntern == InitIntern /\ [][NextIntern]_vars

\* C7: when two parsers sharing a compiler construct a function type with
\* the same typeid, in every interleaving exactly one node is installed
\* under that tid and both parsers return that node.
C7_InternRaceFree ==
  \A tid \in Tids :
    /\ Cardinality(tim.installed[tid]) <= 1
    /\ \A q, r \in Parsers :
         tim.p[q].ret[tid] # NULL /\ tim.p[r].ret[tid] # NULL
           => tim.p[q].ret[tid] = tim.p[r].ret[tid]

(***************************************************************************)
(* AST nodes.  A node is a record of the heap of the parser; a pointer to  *)
(* a node is its index, NULL is 0.  The built-in types and constants of    *)
(* universe.c come first, then last_resort_node.                           *)
(***************************************************************************)
sym__ == <<"_">>
sym_this == <<"t", "h", "i", "s">>
\* compiler_t.ptrsize of the target.
ptrsize == 8

Node(kind, line) ==
  [kind |-> kind, line |-> line, name |-> <<>>, type |-> NULL, flags |-> {},
   nrefs |-> 0, elem |-> NULL, ismut |-> FALSE, init |-> NULL, ref |-> NULL,
   children |-> <<>>, op |-> "", expr |-> NULL, left |-> NULL, right |-> NULL,
   cond |-> NULL, thenb |-> NULL, elseb |-> NULL, start |-> NULL, end |-> NULL,
   body |-> NULL, value |-> NULL, intval |-> U64Zero, recv |-> NULL, target |-> NULL,
   args |-> <<>>, params |-> <<>>, result |-> NULL, methodof |-> NULL,
   fields |-> <<>>, methods |-> <<>>, hasinit |-> FALSE, isthis |-> FALSE,
   isunsigned |-> FALSE, size |-> 0, align |-> 0, tid |-> <<>>, f64val |-> <<>>]

\* TYPEID_PREFIX(kind): the byte that stands for a kind in a type id.
TYPEID_PREFIX(kind) ==
  CASE kind = "TYPE_VOID" -> "v" [] kind = "TYPE_BOOL" -> "b"
    [] kind = "TYPE_INT" -> "i" [] kind = "TYPE_I8" -> "c"
    [] kind = "TYPE_I16" -> "s" [] kind = "TYPE_I32" -> "w"
    [] kind = "TYPE_I64" -> "d" [] kind = "TYPE_F32" -> "f"
    [] kind = "TYPE_F64" -> "g" [] kind = "TYPE_FUN" -> "F"
    [] kind = "TYPE_STRUCT" -> "S" [] kind = "TYPE_ARRAY" -> "A"
    [] kind = "TYPE_OPTIONAL" -> "O" [] kind = "TYPE_ALIAS" -> "L"
    [] kind = "TYPE_PTR" -> "P" [] kind = "TYPE_REF" -> "R"
    [] OTHER -> "U"

\* DEFTYPE of universe.c.
DEFTYPE(kind, size, isunsigned) ==
  [Node(kind, 0) EXCEPT !.size = size, !.align = size, !.isunsigned = isunsigned,
                        !.tid = <<TYPEID_PREFIX(kind)>>]

type_void == 1
type_bool == 2
type_int == 3
type_uint == 4
type_i8 == 5
type_i16 == 6
type_i32 == 7
type_i64 == 8
type_u8 == 9
type_u16 == 10
type_u32 == 11
type_u64 == 12
type_f32 == 13
type_f64 == 14
const_true == 15
const_false == 16
last_resort_node == 17

UniverseHeap ==
  << DEFTYPE("TYPE_VOID", 0, FALSE), DEFTYPE("TYPE_BOOL", 1, TRUE),
     DEFTYPE("TYPE_INT", 4, FALSE), DEFTYPE("TYPE_INT", 4, TRUE),
     DEFTYPE("TYPE_I8", 1, FALSE), DEFTYPE("TYPE_I16", 2, FALSE),
     DEFTYPE("TYPE_I32", 4, FALSE), DEFTYPE("TYPE_I64", 8, FALSE),
     DEFTYPE("TYPE_I8", 1, TRUE), DEFTYPE("TYPE_I16", 2, TRUE),
     DEFTYPE("TYPE_I32", 4, TRUE), DEFTYPE("TYPE_I64", 8, TRUE),
     DEFTYPE("TYPE_F32", 4, FALSE), DEFTYPE("TYPE_F64", 8, FALSE),
     [Node("EXPR_BOOLLIT", 0) EXCEPT !.type = type_bool, !.intval = U64FromSmall(1)],
     [Node("EXPR_BOOLLIT", 0) EXCEPT !.type = type_bool],
     Node("NODE_BAD", 0) >>

\* The keys of entries[] in universe(), as symbols, and the map that
\* universe() builds: the node of a key, NULL for any other symbol.
universe_syms ==
  << <<"v", "o", "i", "d">>,
     <<"b", "o", "o", "l">>,
     <<"i", "n", "t">>,
     <<"u", "i", "n", "t">>,
     <<"i", "8">>,
     <<"i", "1", "6">>,
     <<"i", "3", "2">>,
     <<"i", "6", "4">>,
     <<"u", "8">>,
     <<"u", "1", "6">>,
     <<"u", "3", "2">>,
     <<"u", "6", "4">>,
     <<"f", "3", "2">>,
     <<"f", "6", "4">>,
     <<"t", "r", "u", "e">>,
     <<"f", "a", "l", "s", "e">> >>
universe_map(name) ==
  LET hits == {i \in 1..Len(universe_syms) : universe_syms[i] = name}
  IN IF hits = {} THEN NULL ELSE CHOOSE i \in hits : TRUE

PrimTypeKinds ==
  {"TYPE_VOID", "TYPE_BOOL", "TYPE_INT", "TYPE_I8", "TYPE_I16", "TYPE_I32",
   "TYPE_I64", "TYPE_F32", "TYPE_F64"}
UserTypeKinds ==
  {"TYPE_ARRAY", "TYPE_FUN", "TYPE_PTR", "TYPE_REF", "TYPE_OPTIONAL",
   "TYPE_STRUCT", "TYPE_ALIAS"}
ExprKinds ==
  {"EXPR_FUN", "EXPR_BLOCK", "EXPR_CALL", "EXPR_ID", "EXPR_FIELD", "EXPR_PARAM",
   "EXPR_VAR", "EXPR_LET", "EXPR_MEMBER", "EXPR_PREFIXOP", "EXPR_POSTFIXOP",
   "EXPR_BINOP", "EXPR_DEREF", "EXPR_IF", "EXPR_FOR", "EXPR_RETURN",
   "EXPR_BOOLLIT", "EXPR_INTLIT", "EXPR_FLOATLIT"}
nodekind_isexpr(kind) == kind \in ExprKinds
nodekind_istype(kind) == kind \in PrimTypeKinds \cup UserTypeKinds
nodekind_isprimtype(kind) == kind \in PrimTypeKinds
nodekind_isusertype(kind) == kind \in UserTypeKinds

(***************************************************************************)
(* The scope stack, scope.c.  A scope is ptr (cap slots), len, base, cap.  *)
(* A slot holds a saved base, a node or a symbol; slots that were never    *)
(* written hold no defined value.                                          *)
(***************************************************************************)
SlotBase(n) == <<"base", n>>
SlotNode(n) == <<"node", n>>
SlotSym(k) == <<"sym", k>>
SlotUninit == <<"uninit", 0>>
\* A slot read as the wrong kind of value, or outside ptr.
WILD == -1
\* U32_MAX as the depth of a lookup: deeper than any stack of scopes.
U32_MAX == 2147483647

scope_init == [ptr |-> <<>>, len |-> 0, base |-> 0, cap |-> 0]

scope_clear(s) == [s EXCEPT !.len = 0, !.base = 0]

\* ptr[i] read as a saved base, as a node.
scope_base_at(s, i) ==
  IF i < s.cap /\ s.ptr[i + 1][1] = "base" THEN s.ptr[i + 1][2] ELSE WILD
scope_node_at(s, i) ==
  IF i < s.cap /\ s.ptr[i + 1][1] = "node" THEN s.ptr[i + 1][2] ELSE WILD

\* scope_grow, given whether mem_resizev succeeds.
scope_grow(s, mem_ok) ==
  LET initcap == 4
      newcap == (s.cap + ((initcap \div 2) * (IF s.cap = 0 THEN 1 ELSE 0))) * 2
  IN IF ~mem_ok THEN [s |-> s, ok |-> FALSE]
     ELSE [s |-> [s EXCEPT !.cap = newcap,
                           !.ptr = @ \o [i \in 1..(newcap - s.cap) |-> SlotUninit]],
           ok |-> TRUE]

scope_push(s, mem_ok) ==
  LET g == IF s.len >= s.cap THEN scope_grow(s, mem_ok) ELSE [s |-> s, ok |-> TRUE]
  IN IF ~g.ok THEN [s |-> s, ok |-> FALSE, grew |-> FALSE]
     ELSE [s |-> [g.s EXCEPT !.ptr[s.len + 1] = SlotBase(s.base),
                             !.base = s.len, !.len = s.len + 1],
           ok |-> TRUE, grew |-> s.len >= s.cap]

\* scope_pop that rewinds len and leaves base.
scope_pop_LenOnly(s) == [s EXCEPT !.len = s.base]

scope_pop(s) == [s EXCEPT !.len = s.base, !.base = scope_base_at(s, s.base)]

scope_def(s, mem_ok, key, value) ==
  LET g == IF s.cap - s.len < 2 THEN scope_grow(s, mem_ok) ELSE [s |-> s, ok |-> TRUE]
  IN IF ~g.ok THEN [s |-> s, ok |-> FALSE, grew |-> FALSE]
     ELSE [s |-> [g.s EXCEPT !.ptr[s.len + 1] = SlotNode(value),
                             !.ptr[s.len + 2] = SlotSym(key),
                             !.len = s.len + 2],
           ok |-> TRUE, grew |-> s.cap - s.len < 2]

\* The loop of scope_lookup without the test of maxdepth at a saved base.
RECURSIVE scope_lookup_loop_AnyDepth(_, _, _, _, _)
scope_lookup_loop_AnyDepth(s, key, i, base, maxdepth) ==
  IF ~(i > 1) THEN NULL
  ELSE LET j == i - 1
       IN IF j = base
          THEN scope_lookup_loop_AnyDepth(s, key, j, scope_base_at(s, j), maxdepth)
          ELSE IF s.ptr[j + 1] = SlotSym(key) THEN scope_node_at(s, j - 1)
               ELSE scope_lookup_loop_AnyDepth(s, key, j - 1, base, maxdepth)

\* The loop of scope_lookup: "while (i-- > 1)" with i, base and maxdepth.
RECURSIVE scope_lookup_loop(_, _, _, _, _)
scope_lookup_loop(s, key, i, base, maxdepth) ==
  IF ~(i > 1) THEN NULL
  ELSE LET j == i - 1
       IN IF j = base
          THEN IF maxdepth = 0 THEN NULL
               ELSE scope_lookup_loop(s, key, j, scope_base_at(s, j), maxdepth - 1)
          ELSE IF s.ptr[j + 1] = SlotSym(key) THEN scope_node_at(s, j - 1)
               ELSE scope_lookup_loop(s, key, j - 1, base, maxdepth)

scope_lookup(s, key, maxdepth) == scope_lookup_loop(s, key, s.len, s.base, maxdepth)

scope_istoplevel(s) == s.base = 0

(***************************************************************************)
(* The parser, parser.c.  A parser is a record: s (its scanner, with the   *)
(* diagnostics reported), scope, pkgdefs, methodmap, typeidmap (of the     *)
(* compiler), heap (the nodes), typectx, typectxstack, dotctx,             *)
(* dotctxstack, fun.  ma_left and ast_left are the allocations that p->ma  *)
(* (for the scope stack) and ast_ma (for nodes) will still grant.  panic   *)
(* holds the message once the process has aborted: nothing runs after it;  *)
(* debug tells whether the build has its assertions compiled in.           *)
(*                                                                         *)
(* Fields that only observe: nnext (calls of scanner_next), frames (one    *)
(* entry per enter_scope not yet left: did its push succeed), npush, npop, *)
(* badpop (pops made for an enter_scope whose push had failed), stalled    *)
(* (a loop iteration that consumed no token and did not see EOF), log      *)
(* (the define and lookup calls, in order), trace (the tokens that next    *)
(* has left behind, each with the symbol of the scanner), types (the       *)
(* composite types that the type parselets returned, each with the tokens  *)
(* it was parsed from).                                                    *)
(***************************************************************************)
EmptyMap == [k \in {} |-> NULL]

parser_init ==
  [s |-> scanner_init, scope |-> scope_init, pkgdefs |-> EmptyMap,
   methodmap |-> EmptyMap, typeidmap |-> EmptyMap, heap |-> UniverseHeap,
   typectx |-> type_void, typectxstack |-> <<>>, dotctx |-> NULL,
   dotctxstack |-> <<>>, fun |-> NULL, ma_left |-> 0, ast_left |-> 0,
   debug |-> FALSE, panic |-> "", nnext |-> 0, frames |-> <<>>, npush |-> 0, npop |-> 0,
   badpop |-> 0, stalled |-> FALSE, log |-> <<>>, types |-> <<>>, trace |-> <<>>,
   noom |-> 0, oomnext |-> 0]

Aborted(p) == p.panic # ""

\* Statements run in order: the parsers of done are computed, in that
\* order, before x is.
After(done, x) == IF done = <<>> THEN x ELSE x

currtok(p) == p.s.tok

panic(p, msg) == IF Aborted(p) THEN p ELSE [p EXCEPT !.panic = msg]

\* The current token as the source spells it: its kind, and the name or
\* the value of an identifier or a literal.
TokenText(s) ==
  <<s.tok,
    IF s.tok = "ID" THEN s.sym ELSE <<>>,
    IF s.tok = "INTLIT" THEN s.litint ELSE U64Zero,
    IF s.tok = "FLOATLIT" THEN s.litbuf ELSE <<>>>>

\* call(name, a) is the call of the function name with the arguments a.
\* The parser calls the scanner through it, and the parselets call expr(),
\* type() and fun() through it, so that every cycle of calls runs through
\* this one recursive operator.
RECURSIVE call(_, _)

next(p) ==
  IF Aborted(p) THEN p
  ELSE [p EXCEPT !.s = call("scanner_next", <<p.s>>), !.nnext = @ + 1,
                 !.trace = Append(@, TokenText(p.s))]

\* assert(cond) and assertnotnull: abort in a build with assertions.
assert(p, cond, msg) == IF p.debug /\ ~cond THEN panic(p, msg) ELSE p

\* save_scanstate, next, restore_scanstate: the parser, which keeps the
\* diagnostics that the scanner reported meanwhile, and ok, the bool returned.
lookahead_issym(p, sym) ==
  LET s1 == call("scanner_next", <<p.s>>)
  IN [p |-> [p EXCEPT !.s.diag = s1.diag], ok |-> s1.tok = "ID" /\ s1.sym = sym]

\* The loop of fastforward.
RECURSIVE fastforward(_, _)
fastforward(p, stoplist) ==
  IF Aborted(p) \/ currtok(p) = "EOF" \/ currtok(p) \in stoplist THEN p
  ELSE LET p1 == next(p)
       IN IF p1.nnext = p.nnext THEN [p1 EXCEPT !.stalled = TRUE]
          ELSE fastforward(p1, stoplist)

fastforward_semi(p) == fastforward(p, {"SEMI"})

\* error1 and error: nothing is reported once the scanner is at the end of
\* the input with EOF as its token.
error(p, msg) ==
  IF Aborted(p) THEN p
  ELSE IF p.s.inp = inend(p.s) /\ p.s.tok = "EOF" THEN p
  ELSE [p EXCEPT !.s.diag = Append(@, msg)]

warning(p, msg) ==
  IF Aborted(p) THEN p ELSE [p EXCEPT !.s.diag = Append(@, msg)]

\* noom counts the calls, and oomnext is the number of tokens fetched before
\* the first of them.
out_of_mem(p) ==
  IF Aborted(p) THEN p
  ELSE [error(p, "out of memory") EXCEPT !.s.inp = inend(p.s), !.noom = @ + 1,
                                         !.oomnext = IF p.noom = 0 THEN p.nnext ELSE @]

unexpected(p, errmsg) == error(p, "unexpected token")

expect_fail(p, expecttok, errmsg) == error(p, "expected token")

\* expect_token, expect and expect2 yield the parser and ok, the bool returned.
expect_token(p, expecttok, errmsg) ==
  LET ok == currtok(p) = expecttok
  IN [p |-> IF ok THEN p ELSE expect_fail(p, expecttok, errmsg), ok |-> ok]

expect(p, expecttok, errmsg) ==
  CHOOSE out \in
    { [p |-> next(r.p), ok |-> r.ok] :
        r \in {expect_token(p, expecttok, errmsg)} } : TRUE

expect2(p, tok, errmsg) ==
  IF currtok(p) = tok THEN [p |-> next(p), ok |-> TRUE]
  ELSE LET p1 == fastforward(unexpected(p, errmsg), {tok, "SEMI"})
       IN [p |-> IF currtok(p1) = tok THEN next(p1) ELSE p1, ok |-> FALSE]

\* _mknode: the parser and n, the node; last_resort_node when ast_ma fails.
mknode(p, kind) ==
  IF Aborted(p) THEN [p |-> p, n |-> last_resort_node]
  ELSE IF p.ast_left = 0 THEN [p |-> out_of_mem(p), n |-> last_resort_node]
  ELSE [p |-> [p EXCEPT !.heap = Append(@, Node(kind, p.s.locline)),
                        !.ast_left = @ - 1],
        n |-> Len(p.heap) + 1]

\* n->field = v
Set(p, n, field, v) == IF Aborted(p) THEN p ELSE [p EXCEPT !.heap[n][field] = v]

mkexpr(p, kind, fl) ==
  CHOOSE out \in
    { [p |-> Set(Set(r.p, r.n, "flags", fl), r.n, "type", type_void), n |-> r.n] :
        r \in {mknode(p, kind)} } : TRUE

mkbad(p) ==
  CHOOSE out \in
    { [p |-> Set(r.p, r.n, "type", type_void), n |-> r.n] :
        r \in {mknode(p, "NODE_BAD")} } : TRUE

mkreftype(p, ismut) ==
  CHOOSE out \in
    { [p |-> Set(Set(Set(r.p, r.n, "size", ptrsize), r.n, "align", ptrsize),
                 r.n, "ismut", ismut),
       n |-> r.n] :
        r \in {mknode(p, "TYPE_REF")} } : TRUE

\* CLONE_NODE: a new node with the contents of n.
CLONE_NODE(p, n) ==
  CHOOSE out \in
    { IF r.n = last_resort_node THEN r
      ELSE [p |-> [r.p EXCEPT !.heap[r.n] = p.heap[n]], n |-> r.n] :
        r \in {mknode(p, p.heap[n].kind)} } : TRUE

clone_node(p, n) ==
  IF p.heap[n].kind \in {"EXPR_FIELD", "EXPR_PARAM", "EXPR_LET", "EXPR_VAR"}
  THEN CLONE_NODE(p, n)
  ELSE [p |-> panic(p, "TODO clone_node"), n |-> NULL]

enter_scope(p) ==
  IF Aborted(p) THEN p
  ELSE CHOOSE out \in
         { IF p1.frames[Len(p1.frames)] THEN p1 ELSE out_of_mem(p1) :
             p1 \in { [p EXCEPT !.scope = r.s,
                                !.ma_left = IF r.grew THEN @ - 1 ELSE @,
                                !.frames = Append(@, r.ok),
                                !.npush = IF r.ok THEN @ + 1 ELSE @] :
                        r \in {scope_push(p.scope, p.ma_left > 0)} } } : TRUE

leave_scope(p) ==
  IF Aborted(p) THEN p
  ELSE CHOOSE out \in
         { IF p1.scope.base = WILD THEN panic(p1, "scope_pop: invalid read") ELSE p1 :
             p1 \in { [p EXCEPT !.scope = scope_pop(p.scope), !.npop = @ + 1,
                                !.log = Append(@, [ev |-> "leave_scope", name |-> <<>>,
                                                   node |-> NULL,
                                                   depth |-> Len(p.frames)]),
                                !.badpop = IF p.frames # <<>> /\ p.frames[Len(p.frames)]
                                           THEN @ ELSE @ + 1,
                                !.frames = IF @ = <<>> THEN @
                                           ELSE SubSeq(@, 1, Len(@) - 1)] } } : TRUE

\* map_lookup on pkgdefs: its own entries, then those of its parent, the
\* universe map.
map_lookup_pkgdefs(p, name) ==
  IF name \in DOMAIN p.pkgdefs THEN p.pkgdefs[name]
  ELSE universe_map(name)

\* The bindings of the innermost scope, and those of the scopes around it.
CurrentKeys(s) ==
  {s.ptr[i + 1][2] : i \in {j \in (s.base + 1)..(s.len - 1) : s.ptr[j + 1][1] = "sym"}}
EnclosingKeys(s) ==
  {s.ptr[i + 1][2] : i \in {j \in 0..(s.base - 1) : s.ptr[j + 1][1] = "sym"}}
AtEnd(p) == p.s.inp = inend(p.s) /\ p.s.tok = "EOF"
CountOf(q, x) == Cardinality({i \in 1..Len(q) : q[i] = x})

Event(ev, name, node, pre, post) ==
  [ev |-> ev, name |-> name, node |-> node,
   top |-> scope_istoplevel(pre.scope),
   cur |-> name \in CurrentKeys(pre.scope),
   encl |-> name \in EnclosingKeys(pre.scope),
   pkg |-> name \in DOMAIN pre.pkgdefs /\ pre.pkgdefs[name] # NULL,
   uni |-> universe_map(name) # NULL,
   atend |-> AtEnd(pre),
   ndiag |-> CountOf(post.s.diag, "redefinition") - CountOf(pre.s.diag, "redefinition"),
   oom |-> CountOf(post.s.diag, "out of memory") - CountOf(pre.s.diag, "out of memory"),
   bound |-> post.scope # pre.scope,
   inpkg |-> post.pkgdefs # pre.pkgdefs,
   depth |-> Len(pre.frames)]

lookup(p, name) ==
  IF Aborted(p) THEN [p |-> p, n |-> NULL]
  ELSE CHOOSE out \in
         { CHOOSE res \in
             { IF n = WILD
               THEN [p |-> panic(p2, "scope_lookup: invalid read"), n |-> NULL]
               ELSE [p |-> p2, n |-> n] :
                 p2 \in { [p1 EXCEPT !.log = Append(@, Event("lookup", name, n, p, p1))] :
                            p1 \in { IF n = NULL \/ n = WILD THEN p
                                     ELSE IF nodekind_isexpr(p.heap[n].kind)
                                             \/ nodekind_isusertype(p.heap[n].kind)
                                     THEN [p EXCEPT !.heap[n].nrefs = @ + 1]
                                     ELSE p } } } : TRUE :
             n \in { IF n0 = NULL THEN map_lookup_pkgdefs(p, name) ELSE n0 :
                       n0 \in {scope_lookup(p.scope, name, U32_MAX)} } } : TRUE

\* scope_define of the parser: scope_def with p->ma.
scope_define(p, name, n) ==
  CHOOSE out \in
    { [p |-> IF Aborted(p) THEN p
             ELSE [p EXCEPT !.scope = r.s, !.ma_left = IF r.grew THEN @ - 1 ELSE @],
       ok |-> r.ok] :
        r \in {scope_def(p.scope, p.ma_left > 0, name, n)} } : TRUE

\* scope_define, then out_of_mem when it failed
scope_define_or_oom(p, name, n) ==
  CHOOSE out \in
    { IF d.ok THEN d.p ELSE out_of_mem(d.p) : d \in {scope_define(p, name, n)} } : TRUE

define_replace(p, name, n) ==
  CHOOSE out \in
    { IF Aborted(p0) THEN p0
      ELSE CHOOSE res \in
             { [p2 EXCEPT !.log = Append(@, Event("define_replace", name, n, p, p2))] :
                 p2 \in { IF scope_istoplevel(p1.scope)
                          THEN [p1 EXCEPT !.pkgdefs = (name :> n) @@ @]
                          ELSE p1 :
                            p1 \in {scope_define_or_oom(p0, name, n)} } } : TRUE :
        p0 \in {assert(assert(p, p.heap[n].kind # "EXPR_ID",
                              "assertion: n->kind != EXPR_ID"),
                       name # sym__, "assertion: name != sym__")} } : TRUE

err_duplicate(p, n, name) == error(p, "redefinition")

define(p, name, n) ==
  IF Aborted(p) THEN p
  ELSE CHOOSE out \in
         { [p2 EXCEPT !.log = Append(@, Event("define", name, n, p, p2))] :
             p2 \in { IF name = sym__ THEN p
                      ELSE IF scope_lookup(p.scope, name, 0) # NULL
                      THEN err_duplicate(p, n, name)
                      ELSE CHOOSE res \in
                             { IF scope_istoplevel(p1.scope)
                               THEN IF name \in DOMAIN p1.pkgdefs /\ p1.pkgdefs[name] # NULL
                                    THEN err_duplicate(p1, n, name)
                                    ELSE [p1 EXCEPT !.pkgdefs = (name :> n) @@ @]
                               ELSE p1 :
                                 p1 \in {scope_define_or_oom(p, name, n)} } : TRUE } } : TRUE

\* push(p, &array, child) on the field of a node that holds a ptrarray.
push(p, n, field, child) ==
  IF Aborted(p) THEN p ELSE [p EXCEPT !.heap[n][field] = Append(@, child)]

typectx_push(p, t) ==
  IF Aborted(p) THEN p
  ELSE [p EXCEPT !.typectxstack = Append(@, p.typectx), !.typectx = t]

typectx_pop(p) ==
  IF Aborted(p) THEN p
  ELSE IF p.typectxstack = <<>> THEN panic(p, "assertion: typectxstack.len > 0")
  ELSE [p EXCEPT !.typectx = p.typectxstack[Len(p.typectxstack)],
                 !.typectxstack = SubSeq(@, 1, Len(@) - 1)]

dotctx_push(p, n) ==
  IF Aborted(p) THEN p
  ELSE [p EXCEPT !.dotctxstack = Append(@, p.dotctx), !.dotctx = n]

dotctx_pop(p) ==
  IF Aborted(p) THEN p
  ELSE IF p.dotctxstack = <<>> THEN panic(p, "assertion: dotctxstack.len > 0")
  ELSE [p EXCEPT !.dotctx = p.dotctxstack[Len(p.dotctxstack)],
                 !.dotctxstack = SubSeq(@, 1, Len(@) - 1)]

\* A loop iteration that took p0 to p1 consumed a token or saw EOF.
Iterated(p0, p1) ==
  IF Aborted(p1) \/ p1.nnext > p0.nnext \/ currtok(p1) = "EOF" THEN p1
  ELSE [p1 EXCEPT !.stalled = TRUE]
Continue(p) == ~Aborted(p) /\ ~p.stalled

(***************************************************************************)
(* Type ids: append() of typeid.c (typeid_append to the parser) and        *)
(* typeid_fun of parser.c.  A buffer is a sequence of bytes.               *)
(***************************************************************************)
HexDigit(n) == IF n < 10 THEN DigitOrder[n + 1] ELSE LowerOrder[n - 9]
RECURSIVE buf_print_u32_hex(_, _)
buf_print_u32_hex(buf, v) ==
  IF v < 16 THEN Append(buf, HexDigit(v))
  ELSE Append(buf_print_u32_hex(buf, v \div 16), HexDigit(v % 16))

write_u32(buf, v) == Append(buf_print_u32_hex(buf, v), ";")

\* The byte of value v < 128, which is the LEB128 encoding of v.
ByteOfValue(v) == <<"x00", "x01", "x02", "x03", "x04", "x05", "x06", "x07">>[v + 1]
buf_print_leb128_u32(buf, v) == Append(buf, ByteOfValue(v))

RECURSIVE typeid_append(_, _, _)

\* The loop of funtype() and of structtype() in typeid.c over the types of
\* the nodes in list, from index i.
RECURSIVE typeid_append_all(_, _, _, _)
typeid_append_all(p, buf, list, i) ==
  IF i > Len(list) THEN [p |-> p, buf |-> buf]
  ELSE CHOOSE out \in
         { typeid_append_all(r.p, r.buf, list, i + 1) :
             r \in {typeid_append(p, buf, p.heap[list[i]].type)} } : TRUE

typeid_funtype(p, buf, t) ==
  CHOOSE out \in
    { typeid_append(r.p, r.buf, r.p.heap[t].result) :
        r \in {typeid_append_all(p, write_u32(buf, Len(p.heap[t].params)),
                                 p.heap[t].params, 1)} } : TRUE

typeid_structtype(p, buf, t) ==
  typeid_append_all(p, write_u32(buf, Len(p.heap[t].fields)), p.heap[t].fields, 1)

typeid_append(p, buf, t) ==
  LET node == p.heap[t]
      bufstart == Len(buf)
      b0 == Append(buf, TYPEID_PREFIX(node.kind))
  IN IF Aborted(p) THEN [p |-> p, buf |-> buf]
     ELSE IF t = NULL THEN [p |-> panic(p, "NULL dereference"), buf |-> buf]
     ELSE IF nodekind_isprimtype(node.kind) THEN [p |-> p, buf |-> Append(buf, node.tid[1])]
     ELSE IF node.tid # <<>> THEN [p |-> p, buf |-> buf \o node.tid]
     ELSE CHOOSE out \in
            { IF r.p.heap[t].tid # <<>> THEN r
              ELSE [p |-> Set(r.p, t, "tid", SubSeq(r.buf, bufstart + 1, Len(r.buf))),
                    buf |-> r.buf] :
                r \in {CASE node.kind = "TYPE_FUN" -> typeid_funtype(p, b0, t)
                         [] node.kind = "TYPE_STRUCT" -> typeid_structtype(p, b0, t)
                         [] node.kind \in {"TYPE_OPTIONAL", "TYPE_PTR", "TYPE_REF"} ->
                              typeid_append(p, b0, node.elem)
                         [] OTHER ->
                              [p |-> assert(p, FALSE, "assertion: unexpected kind in typeid"),
                               buf |-> b0]} } : TRUE

\* _typeid: the type id of t, and the parser with the ids it has set.
typeid(p, t) ==
  IF p.heap[t].tid # <<>> THEN [p |-> p, tid |-> p.heap[t].tid]
  ELSE CHOOSE out \in
         { [p |-> r.p, tid |-> r.p.heap[t].tid] : r \in {typeid_append(p, <<>>, t)} } : TRUE

typeid_fun(p, params, result) ==
  LET b0 == buf_print_leb128_u32(<<TYPEID_PREFIX("TYPE_FUN")>>, Len(params))
  IN CHOOSE out \in
       { [p |-> q.p, tid |-> q.buf] :
           q \in { typeid_append(r.p, r.buf, result) :
                     r \in {typeid_append_all(p, b0, params, 1)} } } : TRUE

\* funtype of parser.c, with _typeidmap_assign: the entry of tid is created
\* NULL when absent.
funtype_init(p, n, params, result) ==
  Set(Set(Set(Set(Set(p, n, "size", ptrsize), n, "align", ptrsize),
              n, "isunsigned", TRUE), n, "result", result),
      n, "params", params)

funtype(p, params, result) ==
  IF Aborted(p) THEN [p |-> p, n |-> last_resort_node]
  ELSE CHOOSE out \in
         { IF Aborted(k.p) THEN [p |-> k.p, n |-> last_resort_node]
           ELSE IF k.tid \in DOMAIN k.p.typeidmap /\ k.p.typeidmap[k.tid] # NULL
           THEN [p |-> assert(k.p, k.p.heap[k.p.typeidmap[k.tid]].kind = "TYPE_FUN",
                              "assertion: (*tp)->kind == kind"),
                 n |-> k.p.typeidmap[k.tid]]
           ELSE CHOOSE new \in
                  { [p |-> [funtype_init(r.p, r.n, params, result)
                              EXCEPT !.typeidmap = (k.tid :> r.n) @@ @],
                     n |-> r.n] : r \in {mknode(k.p, "TYPE_FUN")} } : TRUE :
             k \in {typeid_fun(p, params, result)} } : TRUE

(***************************************************************************)
(* Members and methods.                                                    *)
(***************************************************************************)
lookup_struct_field(p, st, name) ==
  LET fields == p.heap[st].fields
      hits == {i \in 1..Len(fields) : p.heap[fields[i]].name = name}
  IN IF hits = {} THEN NULL
     ELSE fields[CHOOSE i \in hits : \A j \in hits : i <= j]

lookup_method(p, recv, name) ==
  IF recv \notin DOMAIN p.methodmap THEN [p |-> p, n |-> NULL]
  ELSE LET mm == p.methodmap[recv]
       IN IF name \notin DOMAIN mm THEN [p |-> p, n |-> NULL]
          ELSE [p |-> assert(p, mm[name] # NULL, "assertion: *mp != NULL"),
                n |-> mm[name]]

\* get_or_create_methodmap, then add_method.
add_method(p0, fun, name_line) ==
  LET f == p0.heap[fun]
      p == assert(assert(assert(p0, f.methodof # NULL, "assertion: fun->methodof != NULL"),
                         f.name # <<>>, "assertion: fun->name != NULL"),
                  f.name # sym__, "assertion: fun->name != sym__")
      mm == IF f.methodof \in DOMAIN p.methodmap THEN p.methodmap[f.methodof]
            ELSE EmptyMap
      mm1 == IF f.name \in DOMAIN mm THEN mm ELSE (f.name :> NULL) @@ mm
      existing0 == mm1[f.name]
      existing == IF existing0 = NULL /\ p.heap[f.methodof].kind = "TYPE_STRUCT"
                  THEN lookup_struct_field(p, f.methodof, f.name)
                  ELSE existing0
      p1 == [p EXCEPT !.methodmap = (f.methodof :> mm1) @@ @]
      p2 == IF p.heap[existing].kind = "EXPR_FUN"
            THEN error(p1, "duplicate method")
            ELSE error(p1, "duplicate member")
      p3 == IF p.heap[existing].line # 0
            THEN warning(p2, "previously defined here")
            ELSE p2
  IN IF Aborted(p) THEN p
     ELSE IF existing # NULL THEN p3
     ELSE [p1 EXCEPT !.methodmap[f.methodof][f.name] = fun]

(***************************************************************************)
(* The parselets.  Each yields the parser and n, the node it returns.      *)
(* Expression flags (exprflag_t) are sets of flag names.                   *)
(***************************************************************************)
PREC_COMMA == 0
PREC_ASSIGN == 1
PREC_LOGICAL_OR == 2
PREC_LOGICAL_AND == 3
PREC_BITWISE_OR == 4
PREC_BITWISE_XOR == 5
PREC_BITWISE_AND == 6
PREC_EQUAL == 7
PREC_COMPARE == 8
PREC_SHIFT == 9
PREC_ADD == 10
PREC_MUL == 11
PREC_UNARY_PREFIX == 12
PREC_UNARY_POSTFIX == 13
PREC_MEMBER == 14
PREC_LOWEST == PREC_COMMA

AssignToks ==
  {"ASSIGN", "MULASSIGN", "DIVASSIGN", "MODASSIGN", "ADDASSIGN", "SUBASSIGN",
   "SHLASSIGN", "SHRASSIGN", "ANDASSIGN", "XORASSIGN", "ORASSIGN"}

\* expr_parsetab: the prefix parselet, the infix parselet and the
\* precedence of a token; "" stands for NULL.
expr_prefix_of(tok) ==
  CASE tok = "AND" -> "expr_ref"
    [] tok \in {"PLUS", "MINUS", "PLUSPLUS", "MINUSMINUS", "NOT", "TILDE"} -> "expr_prefix_op"
    [] tok = "STAR" -> "expr_deref"
    [] tok = "MUT" -> "expr_mut"
    [] tok = "LPAREN" -> "expr_group"
    [] tok = "DOT" -> "expr_dotmember"
    [] tok = "ID" -> "expr_id"
    [] tok = "FUN" -> "expr_fun"
    [] tok \in {"LET", "VAR"} -> "expr_var"
    [] tok = "IF" -> "expr_if"
    [] tok = "FOR" -> "expr_for"
    [] tok = "RETURN" -> "expr_return"
    [] tok = "INTLIT" -> "expr_intlit"
    [] tok = "FLOATLIT" -> "expr_floatlit"
    [] tok = "LBRACE" -> "expr_block"
    [] OTHER -> ""

expr_infix_of(tok) ==
  CASE tok \in AssignToks \cup {"OR", "XOR", "AND", "SHL", "SHR", "PLUS", "MINUS",
                                "STAR", "SLASH", "PERCENT"} -> "expr_infix_op"
    [] tok \in {"OROR", "ANDAND", "EQ", "NEQ", "LT", "GT", "LTEQ", "GTEQ"} -> "expr_cmp_op"
    [] tok \in {"PLUSPLUS", "MINUSMINUS"} -> "postfix_op"
    [] tok = "LPAREN" -> "expr_postfix_call"
    [] tok = "LBRACK" -> "expr_postfix_subscript"
    [] tok = "DOT" -> "expr_postfix_member"
    [] OTHER -> ""

expr_prec_of(tok) ==
  CASE tok \in AssignToks -> PREC_ASSIGN
    [] tok = "OROR" -> PREC_LOGICAL_OR
    [] tok = "ANDAND" -> PREC_LOGICAL_AND
    [] tok = "OR" -> PREC_BITWISE_OR
    [] tok = "XOR" -> PREC_BITWISE_XOR
    [] tok = "AND" -> PREC_BITWISE_AND
    [] tok \in {"EQ", "NEQ"} -> PREC_EQUAL
    [] tok \in {"LT", "GT", "LTEQ", "GTEQ"} -> PREC_COMPARE
    [] tok \in {"SHL", "SHR"} -> PREC_SHIFT
    [] tok \in {"PLUS", "MINUS"} -> PREC_ADD
    [] tok \in {"STAR", "SLASH", "PERCENT"} -> PREC_MUL
    [] tok \in {"PLUSPLUS", "MINUSMINUS", "NOT", "TILDE", "MUT"} -> PREC_UNARY_PREFIX
    [] tok \in {"LPAREN", "LBRACK"} -> PREC_UNARY_POSTFIX
    [] tok = "DOT" -> PREC_MEMBER
    [] OTHER -> 0

\* type_parsetab and stmt_parsetab: prefix parselets only.
type_prefix_of(tok) ==
  CASE tok = "ID" -> "type_id"
    [] tok = "LBRACE" -> "type_struct"
    [] tok = "FUN" -> "type_fun"
    [] tok = "STAR" -> "type_ptr"
    [] tok = "AND" -> "type_ref"
    [] tok = "MUT" -> "type_mut"
    [] tok = "QUESTION" -> "type_optional"
    [] OTHER -> ""

stmt_prefix_of(tok) ==
  CASE tok = "FUN" -> "stmt_fun"
    [] tok = "TYPE" -> "stmt_typedef"
    [] OTHER -> ""

\* expr(), type() and fun() call the parselets and the parselets call them
\* back: a parselet makes these three calls through call.
call_expr(p, prec, fl) == call("expr", <<p, prec, fl>>)
call_type(p, prec) == call("type", <<p, prec>>)
call_fun(p, fl, methodof, requirename) ==
  call("fun", <<p, fl, methodof, requirename>>)

\* types_iscompat: two types are compatible when they are the same node.
types_iscompat(p, x, y) == x = y

check_types_compat(p, x, y) ==
  IF x # NULL /\ y # NULL /\ ~types_iscompat(p, x, y)
  THEN [p |-> error(p, "incompatible types"), ok |-> FALSE]
  ELSE [p |-> p, ok |-> TRUE]

type_isopt(p, t) == p.heap[t].kind = "TYPE_OPTIONAL"

named_type(p, name) ==
  CHOOSE out \in
    { IF r.n = NULL THEN [p |-> error(r.p, "unknown type"), n |-> type_void]
      ELSE IF ~nodekind_istype(r.p.heap[r.n].kind)
      THEN [p |-> error(r.p, "is not a type"), n |-> type_void]
      ELSE r :
        r \in {lookup(p, name)} } : TRUE

type_id(p) ==
  CHOOSE out \in
    { [p |-> next(r.p), n |-> r.n] : r \in {named_type(p, p.s.sym)} } : TRUE

\* The first loop of struct_fieldset: the names of a field set.
RECURSIVE struct_fieldset_names(_, _)
\* A field of struct_fieldset's first loop: p is the parser after the name.
struct_fieldset_field(p, st, f) ==
  LET name == p.heap[f].name
  IN push(IF lookup_struct_field(p, st, name) # NULL
          THEN error(p, "duplicate field")
          ELSE CHOOSE out \in
                 { IF m.n # NULL THEN error(m.p, "field conflicts with method")
                   ELSE m.p :
                     m \in {lookup_method(p, st, name)} } : TRUE,
          st, "fields", f)

struct_fieldset_names(p, st) ==
  CHOOSE out \in
    { IF Aborted(p4) \/ currtok(p4) # "COMMA" THEN p4
      ELSE CHOOSE o2 \in
             { IF Continue(p5) THEN struct_fieldset_names(p5, st) ELSE p5 :
                 p5 \in {Iterated(p, next(p4))} } : TRUE :
        p4 \in { struct_fieldset_field(expect(Set(r.p, r.n, "name", p.s.sym), "ID", "").p,
                                       st, r.n) :
                   r \in {mknode(p, "EXPR_FIELD")} } } : TRUE

\* for (i = fields_start; i < st->fields.len; i++) fields.v[i]->type = t
RECURSIVE set_types_from(_, _, _, _)
set_types_from(p, list, i, t) ==
  IF i > Len(list) THEN p
  ELSE set_types_from(Set(p, list[i], "type", t), list, i + 1, t)

\* The second loop of struct_fieldset: the initializers; i counts from 0.
RECURSIVE struct_fieldset_inits(_, _, _)
struct_fieldset_inits(p, st, i) ==
  LET fields == p.heap[st].fields
      f == fields[i + 1]
  IN IF i = Len(fields)
     THEN [p |-> call_expr(error(p, "excess field initializer"), PREC_COMMA, {"RVALUE"}).p,
           i |-> i]
     ELSE CHOOSE out \in
            { IF Aborted(p2) \/ currtok(p2) # "COMMA" THEN [p |-> p2, i |-> i + 1]
              ELSE CHOOSE o2 \in
                     { IF Continue(p5) THEN struct_fieldset_inits(p5, st, i + 1)
                       ELSE [p |-> p5, i |-> i + 1] :
                         p5 \in { Iterated(p,
                                    IF ~types_iscompat(p3, p3.heap[f].type,
                                                       p3.heap[p3.heap[f].init].type)
                                    THEN error(p3, "field initializer of wrong type")
                                    ELSE p3) :
                                    p3 \in {next(p2)} } } : TRUE :
                p2 \in { typectx_pop(Set(e.p, f, "init", e.n)) :
                           e \in {call_expr(typectx_push(p, p.heap[f].type), PREC_COMMA,
                                            {"RVALUE"})} } } : TRUE

\* struct_fieldset yields the parser and b, the bool returned.
struct_fieldset(p, st) ==
  LET fields_start == Len(p.heap[st].fields)
  IN CHOOSE out \in
       { IF currtok(p2) # "ASSIGN" THEN [p |-> p2, b |-> FALSE]
         ELSE CHOOSE o2 \in
                { [p |-> IF r.i < Len(r.p.heap[st].fields)
                         THEN error(r.p, "missing field initializer")
                         ELSE r.p,
                   b |-> TRUE] :
                    r \in {struct_fieldset_inits(next(p2), st, fields_start)} } : TRUE :
           p2 \in { set_types_from(t.p, t.p.heap[st].fields, fields_start + 1, t.n) :
                      t \in {call_type(struct_fieldset_names(p, st), PREC_MEMBER)} } } : TRUE

\* The loop of type_struct.
RECURSIVE type_struct_loop(_, _)
type_struct_loop(p, st) ==
  IF Aborted(p) \/ currtok(p) = "RBRACE" THEN p
  ELSE CHOOSE out \in
         { IF Aborted(p1) \/ currtok(p1) # "SEMI" THEN p1
           ELSE CHOOSE o2 \in
                  { IF Continue(p2) THEN type_struct_loop(p2, st) ELSE p2 :
                      p2 \in {Iterated(p, next(p1))} } : TRUE :
             p1 \in { IF currtok(p) = "FUN"
                      THEN CHOOSE o3 \in
                             { push(f.p, st, "methods", f.n) :
                                 f \in {call_fun(p, {}, st, TRUE)} } : TRUE
                      ELSE CHOOSE o3 \in
                             { Set(s.p, st, "hasinit", s.p.heap[st].hasinit \/ s.b) :
                                 s \in {struct_fieldset(p, st)} } : TRUE } } : TRUE

Max(a, b) == IF a >= b THEN a ELSE b
\* ALIGN2(x, a): x rounded up to a multiple of a, a power of two; x for a = 0.
ALIGN2(x, a) == IF a = 0 THEN 0 ELSE ((x + a - 1) \div a) * a

\* for each field: st->align = MAX(st->align, ft->align); st->size += ft->size
RECURSIVE struct_layout(_, _, _)
struct_layout(p, st, i) ==
  LET fields == p.heap[st].fields
      ft == p.heap[fields[i]].type
      p1 == assert(p, ft # NULL, "assertion: f->type != NULL")
      p2 == Set(Set(p1, st, "align", Max(p.heap[st].align, p.heap[ft].align)),
                st, "size", p.heap[st].size + p.heap[ft].size)
  IN IF i > Len(fields) \/ Aborted(p) THEN p
     ELSE IF ft = NULL THEN panic(p1, "NULL dereference")
     ELSE struct_layout(p2, st, i + 1)

type_struct(p) ==
  CHOOSE out \in
    { CHOOSE o2 \in
        { [p |-> Set(p2, r.n, "size", ALIGN2(p2.heap[r.n].size, p2.heap[r.n].align)),
           n |-> r.n] :
            p2 \in {struct_layout(expect(type_struct_loop(next(r.p), r.n),
                                         "RBRACE", "to end struct").p,
                                  r.n, 1)} } : TRUE :
        r \in {mknode(p, "TYPE_STRUCT")} } : TRUE

type_ptr(p) ==
  CHOOSE out \in
    { CHOOSE o2 \in
        { [p |-> Set(e.p, r.n, "elem", e.n), n |-> r.n] :
            e \in {call_type(Set(Set(next(r.p), r.n, "size", ptrsize),
                                 r.n, "align", ptrsize),
                             PREC_UNARY_PREFIX)} } : TRUE :
        r \in {mknode(p, "TYPE_PTR")} } : TRUE

type_ref1(p, ismut) ==
  CHOOSE out \in
    { CHOOSE o2 \in
        { [p |-> Set(e.p, r.n, "elem", e.n), n |-> r.n] :
            e \in {call_type(next(r.p), PREC_UNARY_PREFIX)} } : TRUE :
        r \in {mkreftype(p, ismut)} } : TRUE

type_ref(p) == type_ref1(p, FALSE)

type_mut(p) ==
  CHOOSE out \in
    { IF currtok(p1) # "AND" THEN mkbad(unexpected(p1, "expecting '&'"))
      ELSE type_ref1(p1, TRUE) :
        p1 \in {next(p)} } : TRUE

type_optional(p) ==
  CHOOSE out \in
    { CHOOSE o2 \in
        { [p |-> Set(e.p, r.n, "elem", e.n), n |-> r.n] :
            e \in {call_type(next(r.p), PREC_UNARY_PREFIX)} } : TRUE :
        r \in {mknode(p, "TYPE_OPTIONAL")} } : TRUE

\* stmt_typedef after the name: x is what expect made of it.
stmt_typedef_type(x, n) ==
  CHOOSE out \in
    { IF Aborted(p5) THEN p5
      ELSE IF p5.heap[p5.heap[n].type].kind = "TYPE_STRUCT"
      THEN Set(p5, p5.heap[n].type, "name", p5.heap[n].name)
      ELSE p5 :
        p5 \in { IF ~x.ok THEN p4
                 ELSE scope_define_or_oom(p4, p4.heap[n].name, p4.heap[n].type) :
          p4 \in { Set(t.p, n, "type", t.n) :
            t \in {call_type(IF x.ok THEN define(x.p, x.p.heap[n].name, n) ELSE x.p,
                             PREC_COMMA)} } } } : TRUE

stmt_typedef(p) ==
  CHOOSE out \in
    { CHOOSE o2 \in
        { [p |-> stmt_typedef_type(expect(Set(p1, r.n, "name", p1.s.sym), "ID", ""), r.n),
           n |-> r.n] :
            p1 \in {next(r.p)} } : TRUE :
        r \in {mknode(p, "STMT_TYPEDEF")} } : TRUE

\* n->ref = ref, then the type of n from what ref is
resolve_id_ref(p, n, ref) ==
  IF ref = NULL
  THEN [p |-> error(p, "undeclared identifier"), ok |-> FALSE]
  ELSE IF nodekind_isexpr(p.heap[ref].kind)
       THEN [p |-> Set(p, n, "type", p.heap[ref].type), ok |-> TRUE]
       ELSE IF nodekind_istype(p.heap[ref].kind)
            THEN [p |-> Set(p, n, "type", ref), ok |-> TRUE]
            ELSE [p |-> error(p, "cannot use as an expression"), ok |-> FALSE]

resolve_id(p, n) ==
  CHOOSE out \in
    { resolve_id_ref(Set(r.p, n, "ref", r.n), n, r.n) :
        r \in {lookup(p, p.heap[n].name)} } : TRUE

expr_id(p, fl) ==
  CHOOSE out \in
    { [p |-> resolve_id(next(Set(r.p, r.n, "name", p.s.sym)), r.n).p, n |-> r.n] :
        r \in {mkexpr(p, "EXPR_ID", fl)} } : TRUE

\* "let x = expr": e is the initializer.
expr_var_untyped(e, n) ==
  CHOOSE out \in
    { [p |-> Set(a2, n, "type", a2.heap[e.n].type), ok |-> TRUE] :
        a2 \in {typectx_pop(Set(e.p, n, "init", e.n))} } : TRUE

\* "let x T = expr": e is the initializer.
expr_var_typed(e, n) ==
  CHOOSE out \in
    { check_types_compat(b3, b3.heap[n].type, b3.heap[e.n].type) :
        b3 \in {typectx_pop(Set(e.p, n, "init", e.n))} } : TRUE

\* "let x T" and "let x T = expr": t is the type.
expr_var_type(t, n, fl) ==
  CHOOSE out \in
    { IF currtok(b1) = "ASSIGN"
      THEN expr_var_typed(call_expr(typectx_push(next(b1), t.n), PREC_ASSIGN,
                                    fl \cup {"RVALUE"}),
                          n)
      ELSE [p |-> b1, ok |-> TRUE] :
        b1 \in {Set(t.p, n, "type", t.n)} } : TRUE

\* define(p, n->name, n) and the checks that follow it; q is the parser with
\* ok, the bool that tells that the types are compatible.
expr_var_define(q, n) ==
  CHOOSE out \in
    { IF p3.heap[n].init = NULL /\ q.ok
      THEN IF p3.heap[n].kind = "EXPR_LET"
           THEN error(p3, "missing value for let binding")
           ELSE IF p3.heap[p3.heap[n].type].kind = "TYPE_REF"
                THEN error(p3, "missing initial value for reference variable")
                ELSE p3
      ELSE p3 :
        p3 \in {define(q.p, q.p.heap[n].name, n)} } : TRUE

\* expr_var after the name.
expr_var_name(p, n, fl) ==
  expr_var_define(
    IF currtok(p) = "ASSIGN"
    THEN expr_var_untyped(call_expr(typectx_push(next(p), type_void), PREC_ASSIGN,
                                    fl \cup {"RVALUE"}),
                          n)
    ELSE expr_var_type(call_type(p, PREC_LOWEST), n, fl),
    n)

expr_var(p, fl) ==
  CHOOSE out \in
    { CHOOSE o2 \in
        { IF Aborted(p1) THEN [p |-> p1, n |-> r.n]
          ELSE IF currtok(p1) # "ID" THEN mkbad(unexpected(p1, "expecting identifier"))
          ELSE [p |-> expr_var_name(next(Set(p1, r.n, "name", p1.s.sym)), r.n, fl),
                n |-> r.n] :
            p1 \in {next(r.p)} } : TRUE :
        r \in {mkexpr(p, IF currtok(p) = "LET" THEN "EXPR_LET" ELSE "EXPR_VAR", fl)} } : TRUE

\* clear_rvalue on the nodes of list, from index i.
RECURSIVE clear_rvalue(_, _)
RECURSIVE clear_rvalue_all(_, _, _)
clear_rvalue_all(p, list, i) ==
  IF i > Len(list) THEN p
  ELSE clear_rvalue_all(clear_rvalue(p, list[i]), list, i + 1)

clear_rvalue(p, n) ==
  LET p1 == Set(p, n, "flags", p.heap[n].flags \ {"RVALUE"})
      p2 == clear_rvalue(p1, p1.heap[n].thenb)
  IN IF Aborted(p) THEN p
     ELSE CASE p.heap[n].kind = "EXPR_IF" ->
                 IF p2.heap[n].elseb # NULL THEN clear_rvalue(p2, p2.heap[n].elseb)
                 ELSE p2
            [] p.heap[n].kind = "EXPR_BLOCK" ->
                 clear_rvalue_all(p1, p1.heap[n].children, 1)
            [] OTHER -> p1

\* The loop of block(): the parser with exit_expr_index and
\* reported_unreachable.
RECURSIVE block_loop(_, _, _, _, _)

\* The same, with a warning for every child after the return.
block_child_exits_WarnEach(p, n, x, reported_unreachable) ==
  IF "EXITS" \in p.heap[n].flags THEN warning(p, "unreachable code")
  ELSE IF p.heap[x].kind = "EXPR_RETURN"
       THEN Set(p, n, "flags", p.heap[n].flags \cup {"EXITS"})
       ELSE p

\* What an iteration does about EX_EXITS once the child x is pushed.
block_child_exits(p, n, x, reported_unreachable) ==
  IF "EXITS" \in p.heap[n].flags
  THEN IF ~reported_unreachable THEN warning(p, "unreachable code") ELSE p
  ELSE IF p.heap[x].kind = "EXPR_RETURN"
       THEN Set(p, n, "flags", p.heap[n].flags \cup {"EXITS"})
       ELSE p

\* The record of an iteration of the loop of the block n: the child pushed,
\* whether EX_EXITS was set before and is set after, and the warnings made.
BlockEvent(n, x, pre, post) ==
  [ev |-> "block_child", name |-> <<>>, node |-> n, child |-> x,
   exits |-> "EXITS" \in pre.heap[n].flags,
   exits_after |-> "EXITS" \in post.heap[n].flags,
   nwarn |-> CountOf(post.s.diag, "unreachable code")
               - CountOf(pre.s.diag, "unreachable code")]

\* An iteration after the push of the child, the node x: p is the parser at
\* the start of the iteration and p1 the parser after the push.
block_loop_child(p, p1, n, x, fl, exit_expr_index, reported_unreachable) ==
  LET exits == "EXITS" \in p1.heap[n].flags
      isret == p1.heap[x].kind = "EXPR_RETURN"
      x2 == IF ~exits /\ isret THEN Len(p1.heap[n].children) - 1 ELSE exit_expr_index
  IN CHOOSE out \in
       { IF Aborted(p2) \/ currtok(p2) # "SEMI" THEN [p |-> p2, exit_expr_index |-> x2]
         ELSE CHOOSE o2 \in
                { IF Aborted(p3) \/ currtok(p3) \in {"RBRACE", "EOF"}
                  THEN [p |-> p3, exit_expr_index |-> x2]
                  ELSE CHOOSE o3 \in
                         { IF Continue(p4)
                           THEN block_loop(p4, n, fl, x2, reported_unreachable \/ exits)
                           ELSE [p |-> p4, exit_expr_index |-> x2] :
                             p4 \in {Iterated(p, clear_rvalue(p3, x))} } : TRUE :
                    p3 \in {next(p2)} } : TRUE :
           p2 \in { IF Aborted(q) THEN q
                    ELSE [q EXCEPT !.log = Append(@, BlockEvent(n, x, p1, q))] :
                      q \in {block_child_exits(p1, n, x, reported_unreachable)} } } : TRUE

block_loop(p, n, fl, exit_expr_index, reported_unreachable) ==
  CHOOSE out \in
    { block_loop_child(p, push(e.p, n, "children", e.n), n, e.n, fl, exit_expr_index,
                       reported_unreachable) :
        e \in {call_expr(p, PREC_LOWEST, fl)} } : TRUE

\* block() from the "}": l is the parser with exit_expr_index.
block_end(l, n, isrvalue) ==
  CHOOSE out \in
    { LET children == p2.heap[n].children
          index == IF "EXITS" \in p2.heap[n].flags THEN l.exit_expr_index
                   ELSE Len(children) - 1
      IN IF Aborted(p2) THEN [p |-> p2, n |-> n]
         ELSE [p |-> IF ~isrvalue /\ Len(children) > 0
                     THEN clear_rvalue(p2, children[index + 1])
                     ELSE p2,
               n |-> n] :
        p2 \in {expect2(l.p, "RBRACE", ", expected '}' or ';'").p} } : TRUE

block(p, fl) ==
  CHOOSE out \in
    { CHOOSE o2 \in
        { block_end(IF currtok(p1) \notin {"RBRACE", "EOF"}
                    THEN block_loop(p1, r.n, fl \ {"RVALUE"}, 0, FALSE)
                    ELSE [p |-> p1, exit_expr_index |-> 0],
                    r.n, "RVALUE" \in fl) :
            p1 \in {next(r.p)} } : TRUE :
        r \in {mkexpr(p, "EXPR_BLOCK", fl)} } : TRUE

any_as_block(p, fl) ==
  IF currtok(p) = "LBRACE" THEN block(p, fl)
  ELSE CHOOSE out \in
         { CHOOSE o2 \in
             { [p |-> push(e.p, r.n, "children", e.n), n |-> r.n] :
                 e \in {call_expr(r.p, PREC_COMMA, fl)} } : TRUE :
             r \in {mkexpr(p, "EXPR_BLOCK", fl)} } : TRUE

expr_block(p, fl) ==
  CHOOSE out \in
    { [p |-> leave_scope(b.p), n |-> b.n] : b \in {block(enter_scope(p), fl)} } : TRUE

\* The shadow of the binding that an identifier of optional type refers to:
\* ref2 is the clone of the binding, id2 the clone of the identifier.
check_if_cond_shadow(ref2, id2, name, elem) ==
  IF Aborted(ref2.p) THEN [p |-> ref2.p, n |-> NULL]
  ELSE [p |-> define_replace(
                Set(Set(ref2.p, ref2.n, "flags",
                        ref2.p.heap[ref2.n].flags \cup {"SHADOWS_OPTIONAL"}),
                    ref2.n, "type", elem),
                name, ref2.n),
        n |-> id2]

\* check_if_cond that narrows the binding itself instead of a shadow of it.
check_if_cond_InPlace(p, cond) ==
  LET c == p.heap[cond]
      elem == p.heap[c.type].elem
  IN IF Aborted(p) THEN [p |-> p, n |-> NULL]
     ELSE IF p.heap[c.type].kind = "TYPE_BOOL" THEN [p |-> p, n |-> NULL]
     ELSE IF ~type_isopt(p, c.type)
          THEN [p |-> error(p, "conditional is not a boolean"), n |-> NULL]
     ELSE IF c.kind = "EXPR_ID" /\ c.ref # NULL
          THEN [p |-> Set(p, c.ref, "type", elem), n |-> NULL]
          ELSE [p |-> p, n |-> NULL]

\* check_if_cond yields the parser and n, the narrowed binding or NULL.
check_if_cond(p, cond) ==
  LET c == p.heap[cond]
      elem == p.heap[c.type].elem
  IN IF Aborted(p) THEN [p |-> p, n |-> NULL]
     ELSE IF p.heap[c.type].kind = "TYPE_BOOL" THEN [p |-> p, n |-> NULL]
     ELSE IF ~type_isopt(p, c.type)
          THEN [p |-> error(p, "conditional is not a boolean"), n |-> NULL]
     ELSE CASE c.kind = "EXPR_ID" ->
                 IF c.ref = NULL THEN [p |-> panic(p, "NULL dereference"), n |-> NULL]
                 ELSE IF ~nodekind_isexpr(p.heap[c.ref].kind)
                      THEN [p |-> error(p, "conditional is not an expression"),
                            n |-> NULL]
                 ELSE CHOOSE out \in
                        { check_if_cond_shadow(
                            clone_node(Set(id2.p, id2.n, "type", elem), c.ref),
                            id2.n, c.name, elem) :
                            id2 \in {CLONE_NODE(p, cond)} } : TRUE
            [] c.kind \in {"EXPR_LET", "EXPR_VAR"} ->
                 [p |-> Set(Set(p, cond, "type", elem), cond, "flags",
                            c.flags \cup {"OPTIONAL"}),
                  n |-> NULL]
            [] OTHER -> [p |-> p, n |-> NULL]

\* while (dst->kind == EXPR_ID && node_isexpr(dst->ref)) dst = dst->ref
RECURSIVE narrowed_dst(_, _)
narrowed_dst(p, dst) ==
  IF p.heap[dst].kind = "EXPR_ID" /\ p.heap[dst].ref # NULL
     /\ nodekind_isexpr(p.heap[p.heap[dst].ref].kind)
  THEN narrowed_dst(p, p.heap[dst].ref)
  ELSE dst

\* expr_if from "else": p is the parser after the "then" branch and narrowed
\* the binding that check_if_cond returned.
expr_if_else(p, n, narrowed, fl) ==
  CHOOSE out \in
    { IF Aborted(p5) THEN [p |-> p5, n |-> n]
      ELSE [p |-> IF narrowed # NULL
                  THEN LET dst == narrowed_dst(p5, p5.heap[n].cond)
                       IN Set(p5, dst, "nrefs",
                              p5.heap[dst].nrefs + p5.heap[narrowed].nrefs)
                  ELSE p5,
            n |-> n] :
        p5 \in {leave_scope(
                  IF currtok(p) = "ELSE"
                  THEN CHOOSE o2 \in
                         { leave_scope(Set(e.p, n, "elseb", e.n)) :
                             e \in {any_as_block(enter_scope(next(p)), fl)} } : TRUE
                  ELSE p)} } : TRUE

\* expr_if from "then": nb is what check_if_cond returned.
expr_if_then(nb, n, fl) ==
  CHOOSE out \in
    { expr_if_else(leave_scope(Set(t.p, n, "thenb", t.n)), n, nb.n, fl) :
        t \in {any_as_block(enter_scope(nb.p), fl)} } : TRUE

expr_if(p, fl) ==
  CHOOSE out \in
    { CHOOSE o2 \in
        { expr_if_then(check_if_cond(Set(c.p, r.n, "cond", c.n), c.n), r.n, fl) :
            c \in {call_expr(enter_scope(next(r.p)), PREC_COMMA, fl \cup {"RVALUE"})} } : TRUE :
        r \in {mkexpr(p, "EXPR_IF", fl)} } : TRUE

\* The body of the loop: p is the parser after the head.
expr_for_body(p, n, paren, fl) ==
  CHOOSE out \in
    { [p |-> Set(b.p, n, "body", b.n), n |-> n] :
        b \in {call_expr(IF paren THEN expect(p, "RPAREN", "").p ELSE p,
                         PREC_COMMA, fl)} } : TRUE

\* "for ; i < 4; i++"
expr_for_semi(p, n, fl) ==
  CHOOSE out \in
    { Set(ae.p, n, "end", ae.n) :
        ae \in { call_expr(next(expect(Set(ac.p, n, "cond", ac.n), "SEMI", "").p),
                           PREC_COMMA, fl) :
                   ac \in {call_expr(next(p), PREC_COMMA, fl)} } } : TRUE

\* "for i < 4" and "for i = 0; i < 4; i++": p is the parser after the first
\* expression, the node start.
expr_for_start(p, n, start, fl) ==
  IF currtok(p) = "SEMI"
  THEN CHOOSE out \in
         { Set(be.p, n, "end", be.n) :
             be \in { call_expr(expect(Set(bd.p, n, "cond", bd.n), "SEMI", "").p,
                                PREC_COMMA, fl) :
                        bd \in {call_expr(Set(next(p), n, "start", start),
                                          PREC_COMMA, fl)} } } : TRUE
  ELSE p

expr_for_head(p, n, fl) ==
  IF currtok(p) = "SEMI" THEN expr_for_semi(p, n, fl)
  ELSE CHOOSE out \in
         { expr_for_start(Set(bc.p, n, "cond", bc.n), n, bc.n, fl) :
             bc \in {call_expr(p, PREC_COMMA, fl)} } : TRUE

\* expr_for after "for" and "(".
expr_for_paren(p, n, paren, fl) ==
  IF Aborted(p) THEN [p |-> p, n |-> n]
  ELSE expr_for_body(expr_for_head(p, n, fl), n, paren, fl)

expr_for(p, fl) ==
  CHOOSE out \in
    { CHOOSE o2 \in
        { expr_for_paren(IF currtok(p1) = "LPAREN" THEN next(p1) ELSE p1, r.n,
                         currtok(p1) = "LPAREN", fl) :
            p1 \in {next(r.p)} } : TRUE :
        r \in {mkexpr(p, "EXPR_FOR", fl)} } : TRUE

\* n->value = v; n->type = v->type
expr_return_value(v, n) ==
  CHOOSE out \in
    { [p |-> Set(p2, n, "type", p2.heap[v.n].type), n |-> n] :
        p2 \in {Set(v.p, n, "value", v.n)} } : TRUE

expr_return(p, fl) ==
  CHOOSE out \in
    { CHOOSE o2 \in
        { IF currtok(p1) = "SEMI" \/ Aborted(p1) THEN [p |-> p1, n |-> r.n]
          ELSE expr_return_value(call_expr(p1, PREC_COMMA, fl \cup {"RVALUE"}), r.n) :
            p1 \in {next(r.p)} } : TRUE :
        r \in {mkexpr(p, "EXPR_RETURN", fl \cup {"RVALUE_CHECKED"})} } : TRUE

\* u64 values that select_int_type compares with.
U64Of(l1, l2, l3, l4) == <<l1, l2, l3, l4>>
\* x & ~0x1000000000000000
U64ClearBit60(x) ==
  IF (x[4] \div 4096) % 2 = 1 THEN <<x[1], x[2], x[3], x[4] - 4096>> ELSE x

\* select_int_type yields the parser and t, the type; isneg is 0 or 1.
select_int_type(p, intval, isneg) ==
  LET ctx == p.typectx
      u == p.heap[ctx].isunsigned
      kind == IF ctx = NULL THEN "NULL" ELSE p.heap[ctx].kind
      uintval == IF isneg # 0 THEN U64ClearBit60(intval) ELSE intval
      signedmax(l1, l2, l3, l4) ==
        IF isneg # 0 THEN U64MulAdd(U64Of(l1, l2, l3, l4), 1, 1) ELSE U64Of(l1, l2, l3, l4)
      check(ty, maxval) ==
        [p |-> IF U64Less(maxval, uintval) THEN error(p, "integer constant overflows")
               ELSE p,
         t |-> ty]
  IN CASE kind = "NULL" -> [p |-> panic(p, "select_int_type: NULL type context"),
                            t |-> type_void]
       [] kind = "TYPE_I8" ->
            check(ctx, IF u THEN U64Of(255, 0, 0, 0) ELSE signedmax(127, 0, 0, 0))
       [] kind = "TYPE_I16" ->
            check(ctx, IF u THEN U64Of(65535, 0, 0, 0) ELSE signedmax(32767, 0, 0, 0))
       [] kind = "TYPE_I32" ->
            check(ctx, IF u THEN U64Of(65535, 65535, 0, 0)
                       ELSE signedmax(65535, 32767, 0, 0))
       [] kind = "TYPE_I64" ->
            check(ctx, IF u THEN U64Max ELSE signedmax(65535, 65535, 65535, 32767))
       [] OTHER ->
            IF isneg # 0
            THEN IF U64LessEq(uintval, U64Of(0, 32768, 0, 0)) THEN [p |-> p, t |-> type_int]
                 ELSE IF U64LessEq(uintval, U64Of(0, 0, 0, 32768))
                      THEN [p |-> p, t |-> type_i64]
                      ELSE check(type_i64, U64Of(0, 0, 0, 32768))
            ELSE IF U64LessEq(intval, U64Of(65535, 32767, 0, 0))
                 THEN [p |-> p, t |-> type_int]
                 ELSE IF U64LessEq(intval, U64Of(65535, 65535, 65535, 32767))
                      THEN [p |-> p, t |-> type_i64]
                      ELSE check(type_u64, U64Max)

\* n->type = select_int_type(p, n, isneg); next(p)
intlit_type(p, n, isneg) ==
  CHOOSE out \in
    { [p |-> next(Set(t.p, n, "type", t.t)), n |-> n] :
        t \in {select_int_type(p, p.heap[n].intval, IF isneg THEN 1 ELSE 0)} } : TRUE

intlit(p, fl, isneg) ==
  CHOOSE out \in
    { intlit_type(Set(r.p, r.n, "intval", p.s.litint), r.n, isneg) :
        r \in {mkexpr(p, "EXPR_INTLIT", fl \cup {"RVALUE_CHECKED", "ANALYZED"})} } : TRUE

\* strtod and strtof of the C library on a literal buffer: the number of
\* bytes they convert, and whether the value is beyond the format's range
\* (judged by the exponent).  SpanWhile is the first index from i whose byte
\* is not in S.
RECURSIVE SpanWhile(_, _, _)
SpanWhile(buf, i, S) ==
  IF i <= Len(buf) /\ buf[i] \in S THEN SpanWhile(buf, i + 1, S) ELSE i

HexDigits == Digits \cup {"a", "b", "c", "d", "e", "f", "A", "B", "C", "D", "E", "F"}

strtod_scan(buf) ==
  LET i0 == IF Len(buf) >= 1 /\ buf[1] \in {"+", "-"} THEN 2 ELSE 1
      ishex == Len(buf) >= i0 + 1 /\ buf[i0] = "0" /\ buf[i0 + 1] \in {"x", "X"}
      ds == IF ishex THEN HexDigits ELSE Digits
      m0 == IF ishex THEN i0 + 2 ELSE i0
      m1 == SpanWhile(buf, m0, ds)
      m2 == IF m1 <= Len(buf) /\ buf[m1] = "." THEN SpanWhile(buf, m1 + 1, ds) ELSE m1
      ndigits == (m1 - m0) + (IF m2 > m1 THEN m2 - m1 - 1 ELSE 0)
      expch == IF ishex THEN {"p", "P"} ELSE {"e", "E"}
      e0 == IF m2 <= Len(buf) /\ buf[m2] \in expch THEN m2 + 1 ELSE m2
      e1 == IF e0 > m2 /\ e0 <= Len(buf) /\ buf[e0] \in {"+", "-"} THEN e0 + 1 ELSE e0
      e2 == SpanWhile(buf, e1, Digits)
      hasexp == e0 > m2 /\ e2 > e1
      endi == IF ndigits = 0 THEN (IF ishex THEN i0 + 1 ELSE 1)
              ELSE IF hasexp THEN e2 ELSE m2
      negexp == e1 > e0 /\ buf[e0] = "-"
  IN [len |-> endi - 1, ishex |-> ishex, ndigits |-> ndigits,
      expdigits |-> IF ndigits > 0 /\ hasexp /\ ~negexp THEN SubSeq(buf, e1, e2 - 1)
                    ELSE <<>>,
      nonzero |-> \E i \in m0..(m2 - 1) : buf[i] \in ds \ {"0"}]

RECURSIVE DecimalValue(_, _, _)
DecimalValue(ds, acc, cap) ==
  IF ds = <<>> \/ acc > cap THEN acc
  ELSE DecimalValue(Tail(ds), acc * 10 + DigitValue(Head(ds)), cap)

\* maxexp: 308 and 1023 for a double, 38 and 127 for a float.
strtod_huge(buf, maxdec, maxbin) ==
  CHOOSE out \in
    { r.nonzero /\ DecimalValue(r.expdigits, 0, IF r.ishex THEN maxbin ELSE maxdec)
                     > (IF r.ishex THEN maxbin ELSE maxdec) :
        r \in {strtod_scan(buf)} } : TRUE

\* floatlit from the conversion of the literal buffer of the scanner in p.
floatlit_check(p, n) ==
  LET buf == p.s.litbuf
      isf32 == p.typectx = type_f32
      p1 == Set(p, n, "type", IF isf32 THEN type_f32 ELSE type_f64)
  IN [p |-> next(IF strtod_scan(buf).len # Len(buf)
                 THEN error(p1, "invalid floating-point constant")
                 ELSE IF isf32 /\ strtod_huge(buf, 38, 127)
                      THEN error(p1, "32-bit floating-point constant too large")
                      ELSE IF ~isf32 /\ strtod_huge(buf, 308, 1023)
                           THEN error(p1, "64-bit floating-point constant too large")
                           ELSE p1),
      n |-> n]

\* n->f64val = strtod(litbuf, &endptr): the value is kept as the text that
\* strtod converts, the characters of the buffer up to endptr.
floatlit_value(p, n) ==
  Set(p, n, "f64val", SubSeq(p.s.litbuf, 1, strtod_scan(p.s.litbuf).len))

floatlit(p, fl, isneg) ==
  CHOOSE out \in
    { floatlit_check(floatlit_value(IF isneg /\ ~Aborted(r.p) /\ Len(r.p.s.litbuf) > 0
                                    THEN [r.p EXCEPT !.s.litbuf[1] = "-"]
                                    ELSE r.p,
                                    r.n),
                     r.n) :
        r \in {mkexpr(p, "EXPR_FLOATLIT", fl \cup {"RVALUE_CHECKED", "ANALYZED"})} } : TRUE

expr_intlit(p, fl) == intlit(p, fl, FALSE)

expr_floatlit(p, fl) == floatlit(p, fl, FALSE)

\* The literal parselets are called as (p, n->op == TMINUS, fl): the bool
\* lands in the flags parameter, as the flag of value 1, and the flags in
\* the bool parameter isneg.
expr_prefix_op_operand(e, n) ==
  CHOOSE out \in
    { [p |-> Set(p2, n, "type", p2.heap[e.n].type), n |-> n] :
        p2 \in {Set(e.p, n, "expr", e.n)} } : TRUE

expr_prefix_op(p, fl) ==
  LET op == currtok(p)
      fl1 == fl \cup {"RVALUE"}
      asflags == IF op = "MINUS" THEN {"FLAG_1"} ELSE {}
  IN CHOOSE out \in
       { CHOOSE o2 \in
           { IF Aborted(p1) THEN [p |-> p1, n |-> r.n]
             ELSE expr_prefix_op_operand(
                    CASE currtok(p1) = "INTLIT" -> intlit(p1, asflags, fl1 # {})
                      [] currtok(p1) = "FLOATLIT" -> floatlit(p1, asflags, fl1 # {})
                      [] OTHER -> call_expr(p1, PREC_UNARY_PREFIX, fl1),
                    r.n) :
               p1 \in {next(Set(r.p, r.n, "op", op))} } : TRUE :
           r \in {mkexpr(p, "EXPR_PREFIXOP", fl)} } : TRUE

\* n->right = e; typectx_pop(p); n->type = left->type
expr_infix_op_right(e, n, left) ==
  CHOOSE out \in
    { [p |-> Set(p3, n, "type", p3.heap[left].type), n |-> n] :
        p3 \in {typectx_pop(Set(e.p, n, "right", e.n))} } : TRUE

\* expr_infix_op after the operator.
expr_infix_op_left(p, n, prec, left, fl) ==
  IF Aborted(p) THEN [p |-> p, n |-> n]
  ELSE CHOOSE out \in
         { expr_infix_op_right(
             call_expr(typectx_push(p2, p2.heap[left].type), prec, fl \cup {"RVALUE"}),
             n, left) :
             p2 \in {Set(Set(p, left, "flags", p.heap[left].flags \cup {"RVALUE"}),
                         n, "left", left)} } : TRUE

expr_infix_op(p, prec, left, fl) ==
  CHOOSE out \in
    { expr_infix_op_left(next(Set(r.p, r.n, "op", currtok(p))), r.n, prec, left, fl) :
        r \in {mkexpr(p, "EXPR_BINOP", fl)} } : TRUE

expr_cmp_op(p, prec, left, fl) ==
  CHOOSE out \in
    { [p |-> Set(r.p, r.n, "type", type_bool), n |-> r.n] :
        r \in {expr_infix_op(p, prec, left, fl)} } : TRUE

RECURSIVE expr_isstorage(_, _)
expr_isstorage(p, n) ==
  CASE p.heap[n].kind = "EXPR_ID" ->
         /\ p.heap[n].ref # NULL
         /\ nodekind_isexpr(p.heap[p.heap[n].ref].kind)
         /\ expr_isstorage(p, p.heap[n].ref)
    [] p.heap[n].kind \in {"EXPR_MEMBER", "EXPR_PARAM", "EXPR_LET", "EXPR_VAR",
                           "EXPR_FUN", "EXPR_DEREF"} -> TRUE
    [] OTHER -> FALSE

\* expr_ismut: "true", "false", or "fault" when it reads through NULL or
\* fails its assertion.
RECURSIVE expr_ismut(_, _)
expr_ismut(p, n) ==
  IF n = NULL THEN "fault"
  ELSE IF p.debug /\ ~expr_isstorage(p, n) THEN "fault"
  ELSE CASE p.heap[n].kind = "EXPR_ID" ->
              IF p.heap[n].ref # NULL /\ nodekind_isexpr(p.heap[p.heap[n].ref].kind)
              THEN expr_ismut(p, p.heap[n].ref)
              ELSE "false"
         [] p.heap[n].kind = "EXPR_MEMBER" ->
              LET a == expr_ismut(p, p.heap[n].target)
              IN IF a = "true" THEN expr_ismut(p, p.heap[n].recv) ELSE a
         [] p.heap[n].kind \in {"EXPR_PARAM", "EXPR_VAR"} -> "true"
         [] OTHER -> "false"

postfix_op(p, prec, left, fl) ==
  CHOOSE out \in
    { CHOOSE o2 \in
        { [p |-> Set(Set(p1, r.n, "expr", left), r.n, "type", p1.heap[left].type),
           n |-> r.n] :
            p1 \in {next(Set(r.p, r.n, "op", currtok(p)))} } : TRUE :
        r \in {mkexpr(p, "EXPR_POSTFIXOP", fl)} } : TRUE

\* expr_deref from the operand e.
expr_deref_expr(e, n) ==
  CHOOSE out \in
    { LET t == p2.heap[e.n].type
      IN IF p2.heap[t].kind # "TYPE_REF"
         THEN [p |-> error(p2, "dereferencing non-reference value"), n |-> n]
         ELSE [p |-> Set(p2, n, "type", p2.heap[t].elem), n |-> n] :
        p2 \in {Set(e.p, n, "expr", e.n)} } : TRUE

expr_deref(p, fl) ==
  CHOOSE out \in
    { CHOOSE o2 \in
        { IF Aborted(p1) THEN [p |-> p1, n |-> r.n]
          ELSE expr_deref_expr(call_expr(p1, PREC_UNARY_PREFIX, fl), r.n) :
            p1 \in {next(Set(r.p, r.n, "op", currtok(p)))} } : TRUE :
        r \in {mkexpr(p, "EXPR_DEREF", fl)} } : TRUE

\* expr_ref1 from the checks of the operand, the node x; p has n->expr = x.
expr_ref1_expr(p, n, x, ismut) ==
  LET et == p.heap[x].type
      m == expr_ismut(p, x)
      p3 == IF p.heap[et].kind = "TYPE_REF" THEN error(p, "referencing reference type")
            ELSE IF ~expr_isstorage(p, x)
                 THEN error(p, "referencing ephemeral value")
            ELSE IF ~ismut THEN p
            ELSE IF m = "fault" THEN panic(p, "expr_ismut: invalid read")
            ELSE IF m = "false" THEN error(p, "mutable reference to immutable")
            ELSE p
  IN IF Aborted(p) THEN [p |-> p, n |-> n]
     ELSE CHOOSE out \in
            { [p |-> Set(Set(t.p, t.n, "elem", et), n, "type", t.n), n |-> n] :
                t \in {mkreftype(p3, ismut)} } : TRUE

expr_ref1(p, ismut, fl) ==
  CHOOSE out \in
    { CHOOSE o2 \in
        { expr_ref1_expr(Set(e.p, r.n, "expr", e.n), r.n, e.n, ismut) :
            e \in {call_expr(next(Set(r.p, r.n, "op", currtok(p))), PREC_UNARY_PREFIX,
                             fl \cup {"RVALUE"})} } : TRUE :
        r \in {mkexpr(p, "EXPR_PREFIXOP", fl)} } : TRUE

expr_ref(p, fl) == expr_ref1(p, FALSE, fl)

expr_mut(p, fl) ==
  CHOOSE out \in
    { IF currtok(p1) # "AND" THEN mkbad(unexpected(p1, "expecting '&'"))
      ELSE expr_ref1(p1, TRUE, fl) :
        p1 \in {next(p)} } : TRUE

expr_group(p, fl) ==
  CHOOSE out \in
    { [p |-> expect(e.p, "RPAREN", "").p, n |-> e.n] :
        e \in {call_expr(next(p), PREC_COMMA, fl)} } : TRUE

\* named_param_or_id after the name.
named_param_or_id_name(p, n, fl) ==
  IF Aborted(p) THEN [p |-> p, n |-> n]
  ELSE IF currtok(p) = "COLON"
       THEN CHOOSE out \in
              { CHOOSE o2 \in
                  { [p |-> Set(p3, n, "type", p3.heap[e.n].type), n |-> n] :
                      p3 \in {Set(e.p, n, "init", e.n)} } : TRUE :
                  e \in {call_expr(Set(next(p), n, "kind", "EXPR_PARAM"),
                                   PREC_COMMA, fl)} } : TRUE
       ELSE [p |-> resolve_id(p, n).p, n |-> n]

named_param_or_id(p, fl) ==
  CHOOSE out \in
    { named_param_or_id_name(next(Set(r.p, r.n, "name", p.s.sym)), r.n, fl) :
        r \in {mkexpr(assert(p, currtok(p) = "ID", "assertion: currtok(p) == TID"),
                      "EXPR_ID", fl)} } : TRUE

\* The types of the parameters that args() matches the arguments against.
args_paramtypes(p, recvtype) ==
  LET t == p.heap[recvtype]
      types(list) == [i \in 1..Len(list) |-> p.heap[list[i]].type]
  IN CASE t.kind = "TYPE_FUN" ->
            IF Len(t.params) > 0 /\ p.heap[t.params[1]].isthis
            THEN Tail(types(t.params)) ELSE types(t.params)
       [] t.kind = "TYPE_STRUCT" -> types(t.fields)
       [] OTHER -> <<recvtype>>

\* The loop of args(), which returns from inside of it.
RECURSIVE args_loop(_, _, _, _, _)
args_loop(p, n, paramtypes, paramidx, fl) ==
  CHOOSE out \in
    { CHOOSE o2 \in
        { IF Aborted(p2) \/ currtok(p2) \notin {"SEMI", "COMMA"} THEN p2
          ELSE CHOOSE o3 \in
                 { IF Continue(p3) THEN args_loop(p3, n, paramtypes, paramidx + 1, fl)
                   ELSE p3 :
                     p3 \in {Iterated(p, next(p2))} } : TRUE :
            p2 \in {push(typectx_pop(a.p), n, "args", a.n)} } : TRUE :
        a \in { IF currtok(p1) = "ID" THEN named_param_or_id(p1, fl)
                ELSE call_expr(p1, PREC_COMMA, fl) :
                  p1 \in {typectx_push(p, IF paramidx < Len(paramtypes)
                                          THEN paramtypes[paramidx + 1]
                                          ELSE type_void)} } } : TRUE

\* args(p, &n->args, recvtype, fl)
args(p, n, recvtype, fl) ==
  args_loop(typectx_push(p, type_void), n, args_paramtypes(p, recvtype), 0, fl)

\* expr_postfix_call from the arguments; p has n->recv set.
expr_postfix_call_args(p, n, recvtype, fl) ==
  CHOOSE out \in
    { LET nargs == p6.heap[n].args
      IN IF Aborted(p6) THEN [p |-> p6, n |-> n]
         ELSE IF recvtype = NULL THEN [p |-> panic(p6, "NULL dereference"), n |-> n]
         ELSE IF p6.heap[recvtype].kind # "TYPE_FUN" /\ Len(nargs) = 1
                 /\ types_iscompat(p6, p6.heap[nargs[1]].type, p6.heap[n].type)
              THEN [p |-> p6, n |-> nargs[1]]
              ELSE [p |-> p6, n |-> n] :
        p6 \in {expect(IF currtok(p) # "RPAREN"
                       THEN args(p, n, IF recvtype # NULL THEN recvtype ELSE type_void,
                                 fl)
                       ELSE p,
                       "RPAREN", "to end function call").p} } : TRUE

\* expr_postfix_call after "(".
expr_postfix_call_recv(p, n, left, fl) ==
  LET lt == p.heap[left].type
      p2 == Set(p, left, "flags", p.heap[left].flags \cup {"RVALUE"})
      p3 == IF lt # NULL /\ p2.heap[lt].kind = "TYPE_FUN"
            THEN Set(p2, n, "type", p2.heap[lt].result)
            ELSE IF lt # NULL /\ nodekind_istype(p2.heap[lt].kind)
                 THEN Set(p2, n, "type", lt)
                 ELSE error(p2, "calling; expected function or type")
  IN expr_postfix_call_args(Set(p3, n, "recv", left), n, lt, fl)

expr_postfix_call(p, prec, left, fl) ==
  CHOOSE out \in
    { CHOOSE o2 \in
        { expr_postfix_call_recv(p1, r.n, left, fl) : p1 \in {next(r.p)} } : TRUE :
        r \in {mkexpr(p, "EXPR_CALL", fl)} } : TRUE

expr_postfix_subscript(p, prec, left, fl) ==
  CHOOSE out \in
    { [p |-> panic(next(r.p), "TODO"), n |-> r.n] :
        r \in {mkexpr(p, "EXPR_POSTFIXOP", fl)} } : TRUE

expr_postfix_member(p, prec, left, fl) ==
  CHOOSE out \in
    { CHOOSE o2 \in
        { [p |-> expect(Set(Set(Set(p1, left, "flags",
                                    p1.heap[left].flags \cup {"RVALUE"}),
                                r.n, "recv", left),
                            r.n, "name", p1.s.sym),
                        "ID", "").p,
           n |-> r.n] :
            p1 \in {next(r.p)} } : TRUE :
        r \in {mkexpr(p, "EXPR_MEMBER", fl)} } : TRUE

expr_dotmember(p, fl) ==
  IF p.dotctx = NULL
  THEN CHOOSE out \in
         { [p |-> fastforward_semi(b.p), n |-> b.n] :
             b \in {mkbad(error(p, "shorthand outside of context"))} } : TRUE
  ELSE expr_postfix_member(p, PREC_MEMBER, p.dotctx, fl)

this_param_type(p, recvt, ismut) ==
  LET st == p.heap[recvt]
  IN IF ~ismut /\ nodekind_isprimtype(st.kind) THEN [p |-> p, n |-> recvt]
     ELSE IF ~ismut /\ st.kind = "TYPE_STRUCT" /\ st.align <= ptrsize
             /\ st.size <= ptrsize * 2
          THEN [p |-> p, n |-> recvt]
          ELSE CHOOSE out \in
                 { [p |-> Set(t.p, t.n, "elem", recvt), n |-> t.n] :
                     t \in {mkreftype(p, ismut)} } : TRUE

this_param(p, fun_, param, ismut) ==
  IF p.heap[fun_].methodof = NULL
  THEN error(Set(Set(p, param, "type", type_void), param, "nrefs", 1),
             "this parameter of non-method function")
  ELSE CHOOSE out \in
         { Set(t.p, param, "type", t.n) :
             t \in {this_param_type(Set(p, param, "isthis", TRUE),
                                    p.heap[fun_].methodof, ismut)} } : TRUE

RECURSIVE fun_params_loop(_, _, _, _)

\* "mut this": the parser, and ismut, whether the parameter is "mut this".
fun_params_mut(p, first) ==
  IF currtok(p) = "MUT" /\ first
  THEN CHOOSE out \in
         { [p |-> IF la.ok THEN next(la.p) ELSE la.p, ismut |-> la.ok] :
             la \in {lookahead_issym(p, sym_this)} } : TRUE
  ELSE [p |-> p, ismut |-> FALSE]

\* A parameter that starts with a name, the parameter's or that of a type;
\* p is the parser after the name.
fun_params_named(p, fun_, param, isthis, ismut, typeq, isnametype) ==
  IF isthis
  THEN [p |-> this_param(p, fun_, param, ismut), typeq |-> typeq, isnametype |-> TRUE]
  ELSE IF currtok(p) \in {"RPAREN", "COMMA", "SEMI"}
       THEN [p |-> p, typeq |-> Append(typeq, param), isnametype |-> isnametype]
       ELSE CHOOSE out \in
              { [p |-> set_types_from(Set(ty.p, param, "type", ty.n), typeq, 1, ty.n),
                 typeq |-> <<>>, isnametype |-> TRUE] :
                  ty \in {call_type(p, PREC_LOWEST)} } : TRUE

\* One parameter: "name", "name type", "this" or, definitely a type, "type".
fun_params_param(p, fun_, param, first, ismut, typeq, isnametype) ==
  IF currtok(p) = "ID"
  THEN fun_params_named(
         next(Set(Set(p, param, "name", p.s.sym), param, "line", p.s.locline)),
         fun_, param, p.s.sym = sym_this /\ first, ismut, typeq, isnametype)
  ELSE CHOOSE out \in
         { [p |-> Set(tt.p, param, "type", tt.n), typeq |-> typeq,
            isnametype |-> isnametype] :
             tt \in {call_type(Set(p, param, "name", sym__), PREC_LOWEST)} } : TRUE

\* The body of the loop up to "loopend"; p has param as its last parameter.
fun_params_one(p, fun_, param, typeq, isnametype) ==
  CHOOSE out \in
    { fun_params_param(m.p, fun_, param, Len(p.heap[fun_].params) = 1, m.ismut,
                       typeq, isnametype) :
        m \in {fun_params_mut(p, Len(p.heap[fun_].params) = 1)} } : TRUE

\* "loopend": q is what the iteration that began with the parser p made.
fun_params_loopend(p, fun_, q) ==
  IF Aborted(q.p) THEN q
  ELSE IF currtok(q.p) \in {"COMMA", "SEMI"}
       THEN CHOOSE out \in
              { IF currtok(n2) = "RPAREN" \/ ~Continue(n2) THEN [q EXCEPT !.p = n2]
                ELSE fun_params_loop(n2, fun_, q.typeq, q.isnametype) :
                  n2 \in {Iterated(p, next(q.p))} } : TRUE
  ELSE IF currtok(q.p) = "RPAREN" THEN q
  ELSE [q EXCEPT !.p = fastforward(unexpected(q.p, "expecting ',' ';' or ')'"),
                                   {"RPAREN", "SEMI"})]

\* The loop of fun_params: the parser with typeq and isnametype.
fun_params_loop(p, fun_, typeq, isnametype) ==
  IF Aborted(p) \/ currtok(p) = "EOF"
  THEN [p |-> p, typeq |-> typeq, isnametype |-> isnametype]
  ELSE CHOOSE out \in
         { fun_params_loopend(p, fun_, q) :
             q \in { fun_params_one(push(Set(r.p, r.n, "type", NULL), fun_, "params", r.n),
                                    fun_, r.n, typeq, isnametype) :
                       r \in {mkexpr(p, "EXPR_PARAM", {})} } } : TRUE

\* "finish" of fun_params in the name-and-type form, and in the type-only
\* form, over the parameters from index i.
RECURSIVE fun_params_void(_, _, _)
fun_params_void(p, params, i) ==
  IF i > Len(params) THEN p
  ELSE fun_params_void(IF p.heap[params[i]].type = NULL
                       THEN Set(p, params[i], "type", type_void) ELSE p,
                       params, i + 1)

RECURSIVE fun_params_types(_, _, _)
fun_params_types(p, params, i) ==
  IF i > Len(params) \/ Aborted(p) THEN p
  ELSE fun_params_types(
         IF p.heap[params[i]].type # NULL THEN p
         ELSE CHOOSE out \in
                { Set(Set(t.p, params[i], "type", t.n), params[i], "name", sym__) :
                    t \in {named_type(p, p.heap[params[i]].name)} } : TRUE,
         params, i + 1)

\* fun_params yields the parser and b, the bool returned.
fun_params(p, fun_) ==
  CHOOSE out \in
    { [p |-> IF l.isnametype
             THEN IF Len(l.typeq) > 0
                  THEN fun_params_void(error(l.p, "expecting type"),
                                       l.p.heap[fun_].params, 1)
                  ELSE l.p
             ELSE fun_params_types(l.p, l.p.heap[fun_].params, 1),
       b |-> l.isnametype] :
        l \in {fun_params_loop(p, fun_, <<>>, FALSE)} } : TRUE

\* "Foo.bar": r is the lookup of Foo, made after the ".".
fun_name_method(r, fun_) ==
  IF r.n = NULL THEN error(r.p, "undeclared identifier")
  ELSE IF ~nodekind_istype(r.p.heap[r.n].kind) THEN error(r.p, "is not a type")
  ELSE CHOOSE out \in
         { IF ~x.ok THEN x.p ELSE add_method(x.p, fun_, r.p.s.locline) :
             x \in {expect(Set(Set(r.p, fun_, "methodof", r.n), fun_, "name", r.p.s.sym),
                           "ID", "after '.'")} } : TRUE

fun_name(p, fun_, recv) ==
  CHOOSE out \in
    { IF Aborted(p1) THEN p1
      ELSE IF recv # NULL
      THEN add_method(Set(p1, fun_, "methodof", recv), fun_, p.s.locline)
      ELSE IF currtok(p1) # "DOT" THEN p1
      ELSE CHOOSE o2 \in
             { fun_name_method(r, fun_) :
                 r \in { lookup(p2, p2.heap[fun_].name) : p2 \in {next(p1)} } } : TRUE :
        p1 \in {next(Set(p, fun_, "name", p.s.sym))} } : TRUE

\* fun_prototype yields the parser and b, the bool returned.
fun_prototype(p, n, methodof, requirename) ==
  CHOOSE out \in
    { IF ~x.ok
      THEN CHOOSE o2 \in
             { [p |-> Set(b.p, n, "type", b.n), b |-> FALSE] :
                 b \in {mkbad(fastforward(x.p, {"LBRACE", "SEMI"}))} } : TRUE
      ELSE CHOOSE o2 \in
             { CHOOSE o3 \in
                 { [p |-> Set(ft.p, n, "type", ft.n), b |-> fp.b] :
                     ft \in { funtype(res.p, res.p.heap[n].params, res.n) :
                               res \in { IF currtok(p2) # "LBRACE"
                                         THEN call_type(p2, PREC_MEMBER)
                                         ELSE [p |-> p2, n |-> type_void] :
                                           p2 \in {expect(fp.p, "RPAREN",
                                                          "to end parameters").p} } } } : TRUE :
                 fp \in { IF currtok(x.p) # "RPAREN" THEN fun_params(x.p, n)
                          ELSE [p |-> x.p, b |-> FALSE] } } : TRUE :
        x \in {expect(IF currtok(p) = "ID" THEN fun_name(p, n, methodof)
                      ELSE IF requirename THEN error(p, "missing function name")
                      ELSE p,
                      "LPAREN", "for parameters")} } : TRUE

\* type_fun: the fun_t that it fills in is a local variable of the
\* function; here it is a node that takes no memory of the allocator.
type_fun(p) ==
  IF Aborted(p) THEN [p |-> p, n |-> last_resort_node]
  ELSE CHOOSE out \in
         { [p |-> r.p, n |-> r.p.heap[Len(p.heap) + 1].type] :
             r \in {fun_prototype(
                      next([p EXCEPT !.heap = Append(@, Node("EXPR_FUN", p.s.locline))]),
                      Len(p.heap) + 1, NULL, FALSE)} } : TRUE

fun_body(p, n, fl) ==
  LET params == p.heap[n].params
      hasthis == Len(params) > 0 /\ p.heap[params[1]].isthis
      result == p.heap[p.heap[n].type].result
      fl1 == IF result = type_void THEN fl \ {"RVALUE"} ELSE fl \cup {"RVALUE"}
  IN CHOOSE out \in
       { IF hasthis THEN dotctx_pop(p4) ELSE p4 :
           p4 \in { IF Aborted(p3) THEN p3 ELSE [p3 EXCEPT !.fun = p.fun] :
             p3 \in { typectx_pop(leave_scope(
                        Set(Set(b.p, n, "body", b.n), b.n, "flags",
                            b.p.heap[b.n].flags \ {"RVALUE"}))) :
               b \in { any_as_block(enter_scope(typectx_push(p1, result)), fl1) :
                 p1 \in { IF Aborted(p0) THEN p0 ELSE [p0 EXCEPT !.fun = n] :
                   p0 \in { IF hasthis
                            THEN dotctx_push(assert(p, p.heap[n].methodof # NULL,
                                                    "assertion: n->methodof != NULL"),
                                             params[1])
                            ELSE p } } } } } } : TRUE

\* for (i = 0; i < n->params.len; i++) define(p, params[i]->name, params[i])
RECURSIVE define_params(_, _, _)
define_params(p, params, i) ==
  IF i > Len(params) THEN p
  ELSE define_params(define(p, p.heap[params[i]].name, params[i]), params, i + 1)

\* fun, after the prototype: p is the parser and has_named_params the bool
\* that fun_prototype returned.
fun_define(p, n, has_named_params, fl) ==
  LET f == p.heap[n]
  IN CHOOSE out \in
       { IF has_named_params THEN leave_scope(p3) ELSE p3 :
           p3 \in { IF currtok(p2) # "SEMI"
                    THEN fun_body(IF ~has_named_params /\ Len(p2.heap[n].params) > 0
                                  THEN error(p2, "function without named arguments can't have a body")
                                  ELSE p2,
                                  n, fl)
                    ELSE p2 :
             p2 \in { IF has_named_params
                      THEN define_params(enter_scope(p1), p1.heap[n].params, 1)
                      ELSE p1 :
               p1 \in { IF f.name # <<>> /\ p.heap[f.type].kind # "NODE_BAD"
                           /\ f.methodof = NULL
                        THEN define(p, f.name, n)
                        ELSE p } } } } : TRUE

fun(p, fl, methodof, requirename) ==
  CHOOSE out \in
    { CHOOSE o2 \in
        { IF Aborted(pr.p) THEN [p |-> pr.p, n |-> r.n]
          ELSE [p |-> fun_define(pr.p, r.n, pr.b, fl), n |-> r.n] :
            pr \in {fun_prototype(next(r.p), r.n, methodof, requirename)} } : TRUE :
        r \in {mkexpr(p, "EXPR_FUN", fl)} } : TRUE

expr_fun(p, fl) == call_fun(p, fl, NULL, FALSE)

stmt_fun(p) == call_fun(p, {}, NULL, TRUE)

\* The parselets of the tables, by name.
\* parselet->prefix(p, ...) and parselet->infix(p, ...): calls of the
\* function that the table names.
stmt_prefix(name, p) == call(name, <<p>>)

type_prefix(name, p) == call(name, <<p>>)

expr_prefix(name, p, fl) == call(name, <<p, fl>>)

expr_infix(name, p, prec, left, fl) == call(name, <<p, prec, left, fl>>)

stmt(p, prec) ==
  LET parselet == stmt_prefix_of(currtok(p))
  IN IF Aborted(p) THEN [p |-> p, n |-> last_resort_node]
     ELSE IF parselet = ""
          THEN mkbad(fastforward_semi(unexpected(p, "where a statement is expected")))
          ELSE stmt_prefix(parselet, p)

\* The loop of expr(): the infix parselets, called with the precedence of
\* the context.
RECURSIVE expr_loop(_, _, _, _)
expr_loop(p, prec, n, fl) ==
  IF Aborted(p) \/ expr_infix_of(currtok(p)) = "" \/ expr_prec_of(currtok(p)) < prec
  THEN [p |-> p, n |-> n]
  ELSE CHOOSE out \in
         { CHOOSE o2 \in
             { IF Continue(p1) THEN expr_loop(p1, prec, r.n, fl)
               ELSE [p |-> p1, n |-> r.n] :
                 p1 \in {Iterated(p, r.p)} } : TRUE :
             r \in {expr_infix(expr_infix_of(currtok(p)), p, prec, n, fl)} } : TRUE

expr(p, prec, fl) ==
  LET parselet == expr_prefix_of(currtok(p))
  IN IF Aborted(p) THEN [p |-> p, n |-> last_resort_node]
     ELSE IF parselet = ""
          THEN mkbad(fastforward_semi(unexpected(p, "where an expression is expected")))
          ELSE CHOOSE out \in
                 { expr_loop(r.p, prec, r.n, fl) :
                     r \in {expr_prefix(parselet, p, fl)} } : TRUE

CompositeTypeKinds == {"TYPE_FUN", "TYPE_STRUCT", "TYPE_PTR", "TYPE_REF", "TYPE_OPTIONAL"}

type(p, prec) ==
  LET parselet == type_prefix_of(currtok(p))
  IN IF Aborted(p) THEN [p |-> p, n |-> last_resort_node]
     ELSE IF parselet = ""
          THEN [p |-> fastforward_semi(unexpected(p, "where type is expected")),
                n |-> type_void]
          ELSE CHOOSE out \in
                 { [p |-> IF ~Aborted(r.p) /\ parselet # "type_id"
                             /\ r.p.heap[r.n].kind \in CompositeTypeKinds
                          THEN [r.p EXCEPT !.types =
                                  Append(@, [text |-> SubSeq(r.p.trace, Len(p.trace) + 1,
                                                             Len(r.p.trace)),
                                             node |-> r.n])]
                          ELSE r.p,
                    n |-> r.n] :
                     r \in {type_prefix(parselet, p)} } : TRUE

\* The loop of parser_parse.
RECURSIVE parser_parse_loop(_, _)
parser_parse_loop(p, unit) ==
  IF Aborted(p) \/ currtok(p) = "EOF" THEN p
  ELSE CHOOSE out \in
         { IF Continue(p2) THEN parser_parse_loop(p2, unit) ELSE p2 :
             p2 \in { Iterated(p, IF x.ok THEN next(x.p) ELSE fastforward_semi(x.p)) :
               x \in { expect_token(push(r.p, unit, "children", r.n), "SEMI", "") :
                 r \in {stmt(p, PREC_LOWEST)} } } } : TRUE

\* parser_parse yields the parser and unit, the node returned; ast_left is
\* what the allocator ast_ma will grant.
parser_parse(p, ast_left, input, pastend) ==
  CHOOSE out \in
    { [p |-> leave_scope(parser_parse_loop(enter_scope(next(r.p)), r.n)),
       unit |-> r.n] :
        r \in {mknode([p EXCEPT !.ast_left = ast_left, !.scope = scope_clear(p.scope),
                                !.s = scanner_set_input(p.s, input, pastend)],
                      "NODE_UNIT")} } : TRUE

\* The parser with its scanner at the first token of the text input.
parser_at(p, input) == next([p EXCEPT !.s = scanner_set_input(@, input, NUL)])

\* expr(p, PREC_LOWEST, 0) for a parser whose scanner is at the first token
\* of the text input.
expr_of_text(p, input) == expr(parser_at(p, input), PREC_LOWEST, {})

\* intlit(p, 0, isneg) for a parser whose scanner is at the literal input.
intlit_of_text(p, input, isneg) == intlit(parser_at(p, input), {}, isneg)

call(name, a) ==
  CASE name = "expr" -> expr(a[1], a[2], a[3])
    [] name = "expr_of_text" -> expr_of_text(a[1], a[2])
    [] name = "intlit_of_text" -> intlit_of_text(a[1], a[2], a[3])
    [] name = "type" -> type(a[1], a[2])
    [] name = "fun" -> fun(a[1], a[2], a[3], a[4])
    [] name = "scanner_next" -> scanner_next(a[1])
    [] name = "parser_parse" -> parser_parse(a[1], a[2], a[3], a[4])
    [] name = "stmt_fun" -> stmt_fun(a[1])
    [] name = "stmt_typedef" -> stmt_typedef(a[1])
    [] name = "type_id" -> type_id(a[1])
    [] name = "type_struct" -> type_struct(a[1])
    [] name = "type_fun" -> type_fun(a[1])
    [] name = "type_ptr" -> type_ptr(a[1])
    [] name = "type_ref" -> type_ref(a[1])
    [] name = "type_mut" -> type_mut(a[1])
    [] name = "type_optional" -> type_optional(a[1])
    [] name = "expr_ref" -> expr_ref(a[1], a[2])
    [] name = "expr_prefix_op" -> expr_prefix_op(a[1], a[2])
    [] name = "expr_deref" -> expr_deref(a[1], a[2])
    [] name = "expr_mut" -> expr_mut(a[1], a[2])
    [] name = "expr_group" -> expr_group(a[1], a[2])
    [] name = "expr_dotmember" -> expr_dotmember(a[1], a[2])
    [] name = "expr_id" -> expr_id(a[1], a[2])
    [] name = "expr_fun" -> expr_fun(a[1], a[2])
    [] name = "expr_var" -> expr_var(a[1], a[2])
    [] name = "expr_if" -> expr_if(a[1], a[2])
    [] name = "expr_for" -> expr_for(a[1], a[2])
    [] name = "expr_return" -> expr_return(a[1], a[2])
    [] name = "expr_intlit" -> expr_intlit(a[1], a[2])
    [] name = "expr_floatlit" -> expr_floatlit(a[1], a[2])
    [] name = "expr_block" -> expr_block(a[1], a[2])
    [] name = "expr_infix_op" -> expr_infix_op(a[1], a[2], a[3], a[4])
    [] name = "expr_cmp_op" -> expr_cmp_op(a[1], a[2], a[3], a[4])
    [] name = "postfix_op" -> postfix_op(a[1], a[2], a[3], a[4])
    [] name = "expr_postfix_call" -> expr_postfix_call(a[1], a[2], a[3], a[4])
    [] name = "expr_postfix_subscript" -> expr_postfix_subscript(a[1], a[2], a[3], a[4])
    [] name = "expr_postfix_member" -> expr_postfix_member(a[1], a[2], a[3], a[4])

(***************************************************************************)
(* SpecParse: parser_init, then up to MaxParses calls of parser_parse on   *)
(* one parser, each on a source text.  The allocator p->ma grants MaLeft   *)
(* more allocations (fixed when the parser is made), ast_ma grants what    *)
(* the call is given.                                                      *)
(***************************************************************************)
MaxParses == 1
\* More allocations than a parse of these texts asks for.
MaxAllocs == 64

\* a function: fun a() {}
Src01 ==
  <<"f", "u", "n", " ", "a", "(", ")", " ", "{", "}">>

\* a function defined twice: fun a() {}\nfun a() {}
Src02 ==
  <<"f", "u", "n", " ", "a", "(", ")", " ", "{", "}", LF, "f", "u", "n",
    " ", "a", "(", ")", " ", "{", "}">>

\* a function named as a type of the universe: fun int() {}
Src03 ==
  <<"f", "u", "n", " ", "i", "n", "t", "(", ")", " ", "{", "}">>

\* a parameter defined twice: fun a(x int, x int) {}
Src04 ==
  <<"f", "u", "n", " ", "a", "(", "x", " ", "i", "n", "t", ",", " ", "x",
    " ", "i", "n", "t", ")", " ", "{", "}">>

\* a parameter defined twice, at the end of the input: fun a(x int, x int
Src05 ==
  <<"f", "u", "n", " ", "a", "(", "x", " ", "i", "n", "t", ",", " ", "x",
    " ", "i", "n", "t">>

\* two anonymous parameters: fun a(_ int, _ int) {}
Src06 ==
  <<"f", "u", "n", " ", "a", "(", "_", " ", "i", "n", "t", ",", " ", "_",
    " ", "i", "n", "t", ")", " ", "{", "}">>

\* shadowing in nested blocks: fun a(x int) { let x = 1; { let x = 2 } }
Src07 ==
  <<"f", "u", "n", " ", "a", "(", "x", " ", "i", "n", "t", ")", " ", "{",
    " ", "l", "e", "t", " ", "x", " ", "=", " ", "1", ";", " ", "{", " ",
    "l", "e", "t", " ", "x", " ", "=", " ", "2", " ", "}", " ", "}">>

\* the same pointer type twice: fun a(x *int, y *int) {}
Src08 ==
  <<"f", "u", "n", " ", "a", "(", "x", " ", "*", "i", "n", "t", ",", " ",
    "y", " ", "*", "i", "n", "t", ")", " ", "{", "}">>

\* reference types: fun a(x &int, y mut &int) {}
Src09 ==
  <<"f", "u", "n", " ", "a", "(", "x", " ", "&", "i", "n", "t", ",", " ",
    "y", " ", "m", "u", "t", " ", "&", "i", "n", "t", ")", " ", "{", "}">>

\* the same function type twice: fun a(x fun(), y fun()) {}
Src10 ==
  <<"f", "u", "n", " ", "a", "(", "x", " ", "f", "u", "n", "(", ")", ",",
    " ", "y", " ", "f", "u", "n", "(", ")", ")", " ", "{", "}">>

\* type definitions: type A int\ntype B A
Src11 ==
  <<"t", "y", "p", "e", " ", "A", " ", "i", "n", "t", LF, "t", "y", "p",
    "e", " ", "B", " ", "A">>

\* struct types: type A { x, y int; fun b() {} }\ntype B { x, y int }
Src12 ==
  <<"t", "y", "p", "e", " ", "A", " ", "{", " ", "x", ",", " ", "y", " ",
    "i", "n", "t", ";", " ", "f", "u", "n", " ", "b", "(", ")", " ", "{",
    "}", " ", "}", LF, "t", "y", "p", "e", " ", "B", " ", "{", " ", "x",
    ",", " ", "y", " ", "i", "n", "t", " ", "}">>

\* a subscript: fun a(x int) { x[0] }
Src13 ==
  <<"f", "u", "n", " ", "a", "(", "x", " ", "i", "n", "t", ")", " ", "{",
    " ", "x", "[", "0", "]", " ", "}">>

\* mut without a reference type: fun a(x mut) {}
Src14 ==
  <<"f", "u", "n", " ", "a", "(", "x", " ", "m", "u", "t", ")", " ", "{",
    "}">>

\* nested scopes: fun a() { { } }
Src15 ==
  <<"f", "u", "n", " ", "a", "(", ")", " ", "{", " ", "{", " ", "}", " ",
    "}">>

\* an if expression: fun a(x int) { if x { x } else { 1 } }
Src16 ==
  <<"f", "u", "n", " ", "a", "(", "x", " ", "i", "n", "t", ")", " ", "{",
    " ", "i", "f", " ", "x", " ", "{", " ", "x", " ", "}", " ", "e", "l",
    "s", "e", " ", "{", " ", "1", " ", "}", " ", "}">>

\* operators and a return: fun a(x int) { x + 1 * 2; return x }
Src17 ==
  <<"f", "u", "n", " ", "a", "(", "x", " ", "i", "n", "t", ")", " ", "{",
    " ", "x", " ", "+", " ", "1", " ", "*", " ", "2", ";", " ", "r", "e",
    "t", "u", "r", "n", " ", "x", " ", "}">>

\* calls, a member, a float literal: fun a(x int) { x(1, 2); a.b; .5 }
Src18 ==
  <<"f", "u", "n", " ", "a", "(", "x", " ", "i", "n", "t", ")", " ", "{",
    " ", "x", "(", "1", ",", " ", "2", ")", ";", " ", "a", ".", "b", ";",
    " ", ".", "5", " ", "}">>

\* a mutable reference to a member: fun a(x int) { mut &x.b }
Src19 ==
  <<"f", "u", "n", " ", "a", "(", "x", " ", "i", "n", "t", ")", " ", "{",
    " ", "m", "u", "t", " ", "&", "x", ".", "b", " ", "}">>

\* a function without its parameter list: fun a x { 1 }
Src20 ==
  <<"f", "u", "n", " ", "a", " ", "x", " ", "{", " ", "1", " ", "}">>

\* a statement that is no function and no type: let a = 1
Src21 ==
  <<"l", "e", "t", " ", "a", " ", "=", " ", "1">>

\* the empty input: 
Src22 ==
  <<>>

\* a for expression: fun a(x int) { for x < 4 { x } }
Src23 ==
  <<"f", "u", "n", " ", "a", "(", "x", " ", "i", "n", "t", ")", " ", "{",
    " ", "f", "o", "r", " ", "x", " ", "<", " ", "4", " ", "{", " ", "x",
    " ", "}", " ", "}">>

\* binary operators: fun a() { 1 * 2 + 3; 1 + 2 + 3 }
Src24 ==
  <<"f", "u", "n", " ", "a", "(", ")", " ", "{", " ", "1", " ", "*", " ",
    "2", " ", "+", " ", "3", ";", " ", "1", " ", "+", " ", "2", " ", "+",
    " ", "3", " ", "}">>

\* code after a return, in two blocks: fun a(x int) { return x; x; x; { return x; x; x } }
Src25 ==
  <<"f", "u", "n", " ", "a", "(", "x", " ", "i", "n", "t", ")", " ", "{",
    " ", "r", "e", "t", "u", "r", "n", " ", "x", ";", " ", "x", ";", " ",
    "x", ";", " ", "{", " ", "r", "e", "t", "u", "r", "n", " ", "x", ";",
    " ", "x", ";", " ", "x", " ", "}", " ", "}">>

\* a method named as a field: type A { x int; fun x() {} }
Src26 ==
  <<"t", "y", "p", "e", " ", "A", " ", "{", " ", "x", " ", "i", "n", "t",
    ";", " ", "f", "u", "n", " ", "x", "(", ")", " ", "{", "}", " ", "}">>

\* a method named as a method: type A { fun b() {}; fun b() {} }
Src27 ==
  <<"t", "y", "p", "e", " ", "A", " ", "{", " ", "f", "u", "n", " ", "b",
    "(", ")", " ", "{", "}", ";", " ", "f", "u", "n", " ", "b", "(", ")",
    " ", "{", "}", " ", "}">>

\* a method with this in the body of a large struct: type A { x, y, z i64; fun g(this) {} }
Src28 ==
  <<"t", "y", "p", "e", " ", "A", " ", "{", " ", "x", ",", " ", "y", ",",
    " ", "z", " ", "i", "6", "4", ";", " ", "f", "u", "n", " ", "g", "(",
    "t", "h", "i", "s", ")", " ", "{", "}", " ", "}">>

\* a method with this after a large struct: type A { x, y, z i64 }\nfun A.g(this) {}
Src29 ==
  <<"t", "y", "p", "e", " ", "A", " ", "{", " ", "x", ",", " ", "y", ",",
    " ", "z", " ", "i", "6", "4", " ", "}", LF, "f", "u", "n", " ", "A", ".",
    "g", "(", "t", "h", "i", "s", ")", " ", "{", "}">>

\* methods with this in the body of a small struct: type A { x int; fun g(this) {}; fun h(mut this) {} }
Src30 ==
  <<"t", "y", "p", "e", " ", "A", " ", "{", " ", "x", " ", "i", "n", "t",
    ";", " ", "f", "u", "n", " ", "g", "(", "t", "h", "i", "s", ")", " ",
    "{", "}", ";", " ", "f", "u", "n", " ", "h", "(", "m", "u", "t", " ",
    "t", "h", "i", "s", ")", " ", "{", "}", " ", "}">>

\* functions that differ in the signedness of a parameter: fun a(x i8) {}\nfun b(x u8) {}
Src31 ==
  <<"f", "u", "n", " ", "a", "(", "x", " ", "i", "8", ")", " ", "{", "}", LF,
    "f", "u", "n", " ", "b", "(", "x", " ", "u", "8", ")", " ", "{", "}">>

\* functions that differ in the mutability of a reference parameter: fun a(x &int) {}\nfun b(x mut &int) {}
Src32 ==
  <<"f", "u", "n", " ", "a", "(", "x", " ", "&", "i", "n", "t", ")", " ",
    "{", "}", LF, "f", "u", "n", " ", "b", "(", "x", " ", "m", "u", "t", " ",
    "&", "i", "n", "t", ")", " ", "{", "}">>

ParseInputs ==
  {Src01, Src02, Src03, Src04, Src05, Src06, Src07, Src08,
   Src09, Src10, Src11, Src12, Src13, Src14, Src15, Src16,
   Src17, Src18, Src19, Src20, Src21, Src22, Src23, Src24,
   Src25, Src26, Src27, Src28, Src29, Src30, Src31, Src32}

MaBudgets == {0, 1, 2, MaxAllocs}
AstBudgets == {2, MaxAllocs}

InitParse ==
  /\ \E debug \in BOOLEAN, ma \in MaBudgets :
       par = [p |-> [parser_init EXCEPT !.debug = debug, !.ma_left = ma],
              unit |-> NULL, calls |-> 0, input |-> <<>>]
  /\ scn = Idle
  /\ uni = Idle
  /\ tim = Idle

\* What only observes one call starts anew with the call.
Observe(p) ==
  [p EXCEPT !.nnext = 0, !.frames = <<>>, !.npush = 0, !.npop = 0, !.badpop = 0,
            !.stalled = FALSE, !.log = <<>>, !.types = <<>>, !.trace = <<>>,
            !.noom = 0, !.oomnext = 0]

ParserParse ==
  /\ par.calls < MaxParses
  /\ ~Aborted(par.p)
  /\ \E input \in ParseInputs, ast \in AstBudgets :
       \E r \in {call("parser_parse", <<Observe(par.p), ast, input, NUL>>)} :
          par' = [p |-> r.p, unit |-> r.unit, calls |-> par.calls + 1, input |-> input]
  /\ UNCHANGED <<scn, uni, tim>>

NextParse == ParserParse

SpecParse == InitParse /\ [][NextParse]_vars

(***************************************************************************)
(* Properties of parser_parse.  par.p holds what the last call left, with  *)
(* the record of that call: npush and npop count the scope pushes that     *)
(* succeeded and the pops, badpop the pops of a scope whose push failed or *)
(* never happened, stalled tells a loop iteration that neither consumed a  *)
(* token nor saw EOF, log lists the calls of define and lookup, types the  *)
(* composite type expressions with their nodes.                            *)
(***************************************************************************)
Called1 == par.calls > 0
Returned == Called1 /\ ~Aborted(par.p)

\* C1: every call of parser_parse on a finite input returns: it does not
\* abort, it returns a node of kind NODE_UNIT, the scanner has reached EOF,
\* and every iteration of a parser loop has consumed a token or seen EOF.
C1_ParseReturnsUnit ==
  Called1 =>
    /\ ~Aborted(par.p)
    /\ ~par.p.stalled
    /\ par.p.heap[par.unit].kind = "NODE_UNIT"
    /\ currtok(par.p) = "EOF"

\* The part of C1 that the code keeps: a call that returns has returned a
\* NODE_UNIT at EOF, and no call has a loop iteration without progress.
C1_LoopsProgress ==
  /\ Called1 => ~par.p.stalled
  /\ Returned => par.p.heap[par.unit].kind = "NODE_UNIT" /\ currtok(par.p) = "EOF"

\* C2: when parser_parse returns, every scope push that succeeded has been
\* matched by exactly one pop, no pop was made without a matching push, and
\* the scope stack is at len = 0, base = 0.
C2_ScopeBalanced ==
  Returned =>
    /\ par.p.badpop = 0
    /\ par.p.npop = par.p.npush
    /\ par.p.scope.len = 0
    /\ par.p.scope.base = 0

\* C3: no input aborts the parser: no panic, failed assertion or invalid
\* read is reached from parser_parse.
C3_NoAbort == ~Aborted(par.p)

\* C4: two composite type expressions of the same tokens, parsed in one
\* call of parser_parse, yield the same node.
C4_CompositeTypesShared ==
  \A i, j \in 1..Len(par.p.types) :
    par.p.types[i].text = par.p.types[j].text
      => par.p.types[i].node = par.p.types[j].node

\* C5: every node t installed in typeidmap has a non-empty tid, was
\* installed under that tid, and typeid reports that tid for it.
C5_TypeidmapKeyedByTid ==
  \A k \in DOMAIN par.p.typeidmap :
    LET t == par.p.typeidmap[k]
    IN t # NULL =>
         /\ par.p.heap[t].tid # <<>>
         /\ par.p.heap[t].tid = k
         /\ typeid(par.p, t).tid = k

\* The calls of define at top level that made their binding, in the scope
\* and in pkgdefs, without a diagnostic.
TopDefines ==
  {i \in 1..Len(par.p.log) :
     LET e == par.p.log[i]
     IN e.ev = "define" /\ e.top /\ e.name # sym__ /\ e.ndiag = 0 /\ e.oom = 0
        /\ e.bound /\ e.inpkg}

\* C8: after a successful define(name, node) at top level, every later
\* lookup(name) at top level returns that node, and when parser_parse
\* returns pkgdefs maps name to that node.
C8_TopLevelDefineObservable ==
  \A i \in TopDefines :
    LET e == par.p.log[i]
    IN /\ \A j \in (i + 1)..Len(par.p.log) :
            LET l == par.p.log[j]
            IN l.ev = "lookup" /\ l.top /\ l.name = e.name => l.node = e.node
       /\ Returned => e.name \in DOMAIN par.p.pkgdefs /\ par.p.pkgdefs[e.name] = e.node

\* The same for the definitions of functions alone, which the code keeps.
C8_FunctionsObservable ==
  \A i \in TopDefines :
    LET e == par.p.log[i]
    IN par.p.heap[e.node].kind = "EXPR_FUN" =>
         /\ \A j \in (i + 1)..Len(par.p.log) :
              LET l == par.p.log[j]
              IN l.ev = "lookup" /\ l.top /\ l.name = e.name => l.node = e.node
         /\ Returned => e.name \in DOMAIN par.p.pkgdefs
                         /\ par.p.pkgdefs[e.name] = e.node

\* C9: define(name, node) reports exactly one "redefinition" diagnostic if
\* name is bound in the current scope or, at top level, in pkgdefs, and
\* none otherwise, whatever the enclosing scopes and the universe bind;
\* define of `_` makes no binding and reports nothing.
C9_RedefinitionRejected ==
  \A i \in 1..Len(par.p.log) :
    LET e == par.p.log[i]
    IN e.ev = "define" =>
         IF e.name = sym__
         THEN e.ndiag = 0 /\ e.oom = 0 /\ ~e.bound /\ ~e.inpkg
         ELSE e.ndiag = (IF e.cur \/ (e.top /\ e.pkg) THEN 1 ELSE 0)

\* The same with the scanner not at the end of its input when define is
\* called, which the code keeps.
C9_RejectedBeforeEnd ==
  \A i \in 1..Len(par.p.log) :
    LET e == par.p.log[i]
    IN e.ev = "define" /\ ~e.atend =>
         IF e.name = sym__
         THEN e.ndiag = 0 /\ e.oom = 0 /\ ~e.bound /\ ~e.inpkg
         ELSE e.ndiag = (IF e.cur \/ (e.top /\ e.pkg) THEN 1 ELSE 0)

(***************************************************************************)
(* Binary operators.                                                       *)
(***************************************************************************)
\* The binary operations whose right operand is a binary operation.
RightNested ==
  {n \in DOMAIN par.p.heap :
     /\ par.p.heap[n].kind = "EXPR_BINOP"
     /\ par.p.heap[n].right # NULL
     /\ par.p.heap[par.p.heap[n].right].kind = "EXPR_BINOP"}

\* C15: binary operations are parsed by precedence and left-associatively:
\* the right operand of an infix operator is never, at its top level (the
\* texts parsed have no parentheses around operands), an operation of lower
\* or equal precedence; so 1 * 2 + 3 is (1 * 2) + 3 and 1 + 2 + 3 is
\* (1 + 2) + 3.
C15_LeftAssociative ==
  Called1 =>
    \A n \in RightNested :
      expr_prec_of(par.p.heap[par.p.heap[n].right].op) > expr_prec_of(par.p.heap[n].op)

\* What the code does: the right operand is parsed with the precedence the
\* caller of expr was given, not with the operator's, so it takes every
\* operation that follows: no left operand is a binary operation.
C15_RightNestedAsCoded ==
  Called1 =>
    \A n \in DOMAIN par.p.heap :
      par.p.heap[n].kind = "EXPR_BINOP" /\ par.p.heap[n].left # NULL =>
        par.p.heap[par.p.heap[n].left].kind # "EXPR_BINOP"

(***************************************************************************)
(* Code after a return.                                                    *)
(***************************************************************************)
\* The iterations of the loops of block(), as indices of the log.
BlockChildren == {i \in 1..Len(par.p.log) : par.p.log[i].ev = "block_child"}
\* The nodes allocator ast_ma was not exhausted by the call.
AstMemoryLeft == Called1 /\ par.p.ast_left > 0

sym_x == <<"x">>

\* ?T for these T.
NarrowElems == {type_bool, type_int, type_i8, type_u64, type_f64}

\* { if x { x }; x }
Nrw01 ==
  <<"{", " ", "i", "f", " ", "x", " ", "{", " ", "x", " ", "}", ";", " ", "x", " ",
    "}">>

\* { if x { x; { x } } else { x }; x }
Nrw02 ==
  <<"{", " ", "i", "f", " ", "x", " ", "{", " ", "x", ";", " ", "{", " ", "x", " ",
    "}", " ", "}", " ", "e", "l", "s", "e", " ", "{", " ", "x", " ", "}", ";", " ",
    "x", " ", "}">>

\* { if x x; x }
Nrw03 ==
  <<"{", " ", "i", "f", " ", "x", " ", "x", ";", " ", "x", " ", "}">>

\* { x; if x { if x { x } }; if x { x }; x }
Nrw04 ==
  <<"{", " ", "x", ";", " ", "i", "f", " ", "x", " ", "{", " ", "i", "f", " ", "x",
    " ", "{", " ", "x", " ", "}", " ", "}", ";", " ", "i", "f", " ", "x", " ", "{",
    " ", "x", " ", "}", ";", " ", "x", " ", "}">>

\* an integer literal under a prefix operator: +0x80000000
Nrw05 ==
  <<"+", "0", "x", "8", "0", "0", "0", "0", "0", "0", "0">>

\* a float literal under a prefix operator: +1.5
Nrw06 ==
  <<"+", "1", ".", "5">>

\* a hexadecimal float literal under a prefix operator: ~0x1.8
Nrw07 ==
  <<"~", "0", "x", "1", ".", "8">>

\* a float literal: 1.5
Nrw08 ==
  <<"1", ".", "5">>

\* a float literal with a long fraction under a prefix operator: +21.25e1
Nrw09 ==
  <<"+", "2", "1", ".", "2", "5", "e", "1">>

\* a call with two arguments: x(1, 2)
Nrw10 ==
  <<"x", "(", "1", ",", " ", "2", ")">>

\* a call of the result of a call: x(1)(2)
Nrw11 ==
  <<"x", "(", "1", ")", "(", "2", ")">>

\* a call without arguments: x()
Nrw12 ==
  <<"x", "(", ")">>

NarrowInputs ==
  {Nrw01, Nrw02, Nrw03, Nrw04, Nrw05, Nrw06, Nrw07, Nrw08, Nrw09, Nrw10, Nrw11,
   Nrw12}

\* The parser with x bound, in the scope of a function, to a node of the
\* given kind and of type ?elem.
NarrowParser(debug, kind, elem) ==
  LET p0 == [parser_init EXCEPT !.debug = debug, !.ma_left = MaxAllocs,
                                !.ast_left = MaxAllocs]
      t == mknode(enter_scope(enter_scope(p0)), "TYPE_OPTIONAL")
      x == mkexpr(Set(t.p, t.n, "elem", elem), kind, {})
  IN [p |-> define(Set(Set(x.p, x.n, "name", sym_x), x.n, "type", t.n), sym_x, x.n),
      n |-> x.n]

InitNarrow ==
  /\ \E debug \in BOOLEAN, kind \in {"EXPR_PARAM", "EXPR_LET", "EXPR_VAR"},
        elem \in NarrowElems :
       \E r \in {NarrowParser(debug, kind, elem)} :
          par = [p |-> r.p, unit |-> NULL, calls |-> 0, input |-> <<>>,
                 orig |-> r.n, pre |-> r.p.heap[r.n],
                 ctx |-> [typectx |-> r.p.typectx,
                          depth |-> Len(r.p.typectxstack)]]
  /\ scn = Idle
  /\ uni = Idle
  /\ tim = Idle

\* expr(p, PREC_LOWEST, 0) on the text input.
NarrowExpr ==
  /\ par.calls = 0
  /\ \E input \in NarrowInputs :
       \E r \in {call("expr_of_text", <<par.p, input>>)} :
          par' = [par EXCEPT !.p = r.p, !.unit = r.n, !.calls = 1, !.input = input]
  /\ UNCHANGED <<scn, uni, tim>>

NextNarrow == NarrowExpr

SpecNarrow == InitNarrow /\ [][NextNarrow]_vars

(***************************************************************************)
(* Narrowing of an optional in an if expression.                           *)
(***************************************************************************)
\* The narrowings of x, as indices of the log: the calls of define_replace.
Narrowings ==
  {d \in 1..Len(par.p.log) :
     par.p.log[d].ev = "define_replace" /\ par.p.log[d].name = sym_x}
LookupsOfX ==
  {l \in 1..Len(par.p.log) : par.p.log[l].ev = "lookup" /\ par.p.log[l].name = sym_x}
\* The index of the log at which the condition scope of narrowing d is
\* popped, or past the log if it is not.
IfEnd(d) ==
  LET pops == {e \in (d + 1)..Len(par.p.log) :
                 /\ par.p.log[e].ev = "leave_scope"
                 /\ par.p.log[e].depth = par.p.log[d].depth}
  IN IF pops = {} THEN Len(par.p.log) + 1
     ELSE CHOOSE e \in pops : \A f \in pops : e <= f
\* The lookup l is made inside the if expression of narrowing d.
Inside(l, d) == d < l /\ l < IfEnd(d)
\* T of the type ?T of x.
ElemOfX == par.p.heap[par.pre.type].elem

MethodsNamed(recv, name) ==
  {f \in DOMAIN par.p.heap :
     /\ par.p.heap[f].kind = "EXPR_FUN"
     /\ par.p.heap[f].methodof = recv
     /\ par.p.heap[f].name = name}

\* C18: adding a method whose name collides with a field or a method of the
\* receiver type leaves the method map of the receiver unchanged: no entry
\* without a function is created for the name, and a method stays mapped to
\* the original function, the first one made for the name.
C18_MethodMapUnchanged ==
  Returned =>
    \A recv \in DOMAIN par.p.methodmap : \A name \in DOMAIN par.p.methodmap[recv] :
       /\ par.p.methodmap[recv][name] # NULL
       /\ par.p.methodmap[recv][name] \in MethodsNamed(recv, name)
       /\ \A f \in MethodsNamed(recv, name) : par.p.methodmap[recv][name] <= f

\* What holds instead: an entry is either the original function or, for a
\* name that is a field of the receiver, no function.
C18_EntryOriginalOrEmpty ==
  Returned =>
    \A recv \in DOMAIN par.p.methodmap : \A name \in DOMAIN par.p.methodmap[recv] :
       IF par.p.methodmap[recv][name] = NULL
       THEN /\ par.p.heap[recv].kind = "TYPE_STRUCT"
            /\ lookup_struct_field(par.p, recv, name) # NULL
       ELSE /\ par.p.methodmap[recv][name] \in MethodsNamed(recv, name)
            /\ \A f \in MethodsNamed(recv, name) : par.p.methodmap[recv][name] <= f

(***************************************************************************)
(* The type of the "this" parameter.                                       *)
(***************************************************************************)
SeqRange(s) == {s[i] : i \in 1..Len(s)}

\* The "this" parameters of the methods of structs: <<struct, parameter>>.
ThisParams ==
  {<<par.p.heap[f].methodof, x>> : f \in DOMAIN par.p.heap, x \in DOMAIN par.p.heap} \cap
  {m \in (DOMAIN par.p.heap) \X (DOMAIN par.p.heap) :
     /\ par.p.heap[m[1]].kind = "TYPE_STRUCT"
     /\ par.p.heap[m[2]].kind = "EXPR_PARAM"
     /\ par.p.heap[m[2]].isthis = TRUE
     /\ \E f \in DOMAIN par.p.heap :
          /\ par.p.heap[f].kind = "EXPR_FUN"
          /\ par.p.heap[f].methodof = m[1]
          /\ m[2] \in SeqRange(par.p.heap[f].params)}

\* align <= ptrsize and size <= 2 * ptrsize, of the complete struct.
SmallStruct(st) ==
  par.p.heap[st].align <= ptrsize /\ par.p.heap[st].size <= ptrsize * 2

\* C19: a non-mutable "this" of a method of a struct has the type of the
\* receiver, by value, iff the complete struct has align <= ptrsize and
\* size <= 2 * ptrsize; for a larger struct, and for every "mut this", the
\* type is a reference to the receiver.  Also for the methods declared in
\* the body of the struct.
C19_ThisByValueIffSmall ==
  Returned =>
    \A m \in ThisParams :
       LET st == m[1]
           t == par.p.heap[m[2]].type
       IN IF t = st THEN SmallStruct(st)
          ELSE /\ par.p.heap[t].kind = "TYPE_REF"
               /\ par.p.heap[t].elem = st
               /\ (par.p.heap[t].ismut \/ ~SmallStruct(st))

\* What holds instead: the reference is what a large struct gets when the
\* method is declared after the struct, and what "mut this" gets.
C19_ThisAsCoded ==
  Returned =>
    \A m \in ThisParams :
       LET st == m[1]
           t == par.p.heap[m[2]].type
       IN t # st =>
            /\ par.p.heap[t].kind = "TYPE_REF"
            /\ par.p.heap[t].elem = st
            /\ (par.p.heap[t].ismut \/ ~SmallStruct(st))

(***************************************************************************)
(* SpecIntLit: select_int_type on the value of an integer literal, for a   *)
(* literal that is negated or not, in a type context that is not a sized   *)
(* integer type.                                                           *)
(***************************************************************************)
Pow31 == U64Of(0, 32768, 0, 0)
Pow31Less1 == U64Of(65535, 32767, 0, 0)
Pow60 == U64Of(0, 0, 0, 4096)
Pow63 == U64Of(0, 0, 0, 32768)
Pow63Less1 == U64Of(65535, 65535, 65535, 32767)

\* The literals 0, 1, 0x7fffffff, 0x80000000, 0x80000001,
\* 0x100000000, 0x1000000000000000, 0x1000000000000001, 0x1000000080000001,
\* 0x7fffffffffffffff, 0x8000000000000000, 0x8000000000000001,
\* 0x9000000000000000, 0xffffffffffffffff.
IntLitTexts ==
  {<<"0">>,
   <<"1">>,
   <<"0", "x", "7", "f", "f", "f", "f", "f", "f", "f">>,
   <<"0", "x", "8", "0", "0", "0", "0", "0", "0", "0">>,
   <<"0", "x", "8", "0", "0", "0", "0", "0", "0", "1">>,
   <<"0", "x", "1", "0", "0", "0", "0", "0", "0", "0", "0">>,
   <<"0", "x", "1", "0", "0", "0", "0", "0", "0", "0", "0", "0", "0", "0", "0", "0", "0", "0">>,
   <<"0", "x", "1", "0", "0", "0", "0", "0", "0", "0", "0", "0", "0", "0", "0", "0", "0", "1">>,
   <<"0", "x", "1", "0", "0", "0", "0", "0", "0", "0", "8", "0", "0", "0", "0", "0", "0", "1">>,
   <<"0", "x", "7", "f", "f", "f", "f", "f", "f", "f", "f", "f", "f", "f", "f", "f", "f", "f">>,
   <<"0", "x", "8", "0", "0", "0", "0", "0", "0", "0", "0", "0", "0", "0", "0", "0", "0", "0">>,
   <<"0", "x", "8", "0", "0", "0", "0", "0", "0", "0", "0", "0", "0", "0", "0", "0", "0", "1">>,
   <<"0", "x", "9", "0", "0", "0", "0", "0", "0", "0", "0", "0", "0", "0", "0", "0", "0", "0">>,
   <<"0", "x", "f", "f", "f", "f", "f", "f", "f", "f", "f", "f", "f", "f", "f", "f", "f", "f">>}

\* Type contexts that are not sized integer types.
IntLitContexts == {type_void, type_bool, type_int, type_uint, type_f64}

InitIntLit ==
  /\ \E ctx \in IntLitContexts :
       par = [p |-> [parser_init EXCEPT !.typectx = ctx, !.ma_left = MaxAllocs,
                                       !.ast_left = MaxAllocs],
              unit |-> NULL, calls |-> 0, input |-> <<>>, intval |-> U64Zero,
              isneg |-> 0, type |-> NULL]
  /\ scn = Idle
  /\ uni = Idle
  /\ tim = Idle

\* n = intlit(p, 0, isneg) at the literal input; intval is n->intval and type
\* is n->type, the result of select_int_type(p, n, isneg).
IntLit ==
  /\ par.calls = 0
  /\ \E input \in IntLitTexts, isneg \in BOOLEAN :
       \E r \in {call("intlit_of_text", <<par.p, input, isneg>>)} :
          par' = [par EXCEPT !.p = r.p, !.unit = r.n, !.calls = 1, !.input = input,
                             !.intval = r.p.heap[r.n].intval,
                             !.isneg = IF isneg THEN 1 ELSE 0,
                             !.type = r.p.heap[r.n].type]
  /\ UNCHANGED <<scn, uni, tim>>

NextIntLit == IntLit

SpecIntLit == InitIntLit /\ [][NextIntLit]_vars

Overflows == CountOf(par.p.s.diag, "integer constant overflows") > 0

\* C20: in a type context that is not a sized integer type, a literal of
\* value v that is not negated gets int iff v <= 2^31-1, i64 iff
\* 2^31-1 < v <= 2^63-1, and u64 otherwise; a negated literal of magnitude m
\* gets int iff m <= 2^31, i64 iff 2^31 < m <= 2^63, and an overflow error
\* iff m > 2^63.
C20_SmallestIntType ==
  par.calls = 1 =>
    IF par.isneg = 0
    THEN /\ par.type = type_int <=> U64LessEq(par.intval, Pow31Less1)
         /\ par.type = type_i64 <=>
              U64Less(Pow31Less1, par.intval) /\ U64LessEq(par.intval, Pow63Less1)
         /\ par.type = type_u64 <=> U64Less(Pow63Less1, par.intval)
         /\ ~Overflows
    ELSE /\ Overflows <=> U64Less(Pow63, par.intval)
         /\ ~Overflows =>
              /\ par.type = type_int <=> U64LessEq(par.intval, Pow31)
              /\ par.type = type_i64 <=>
                   U64Less(Pow31, par.intval) /\ U64LessEq(par.intval, Pow63)

\* What holds of the negated literals whose magnitude has bit 60 clear, and
\* of the literals that are not negated.
C20_Bit60Clear ==
  par.calls = 1 /\ (par.isneg = 0 \/ U64ClearBit60(par.intval) = par.intval) =>
    IF par.isneg = 0
    THEN /\ par.type = type_int <=> U64LessEq(par.intval, Pow31Less1)
         /\ par.type = type_i64 <=>
              U64Less(Pow31Less1, par.intval) /\ U64LessEq(par.intval, Pow63Less1)
         /\ par.type = type_u64 <=> U64Less(Pow63Less1, par.intval)
         /\ ~Overflows
    ELSE /\ Overflows <=> U64Less(Pow63, par.intval)
         /\ ~Overflows =>
              /\ par.type = type_int <=> U64LessEq(par.intval, Pow31)
              /\ par.type = type_i64 <=>
                   U64Less(Pow31, par.intval) /\ U64LessEq(par.intval, Pow63)

(***************************************************************************)
(* SpecReparse: parser_parse called again and again on one parser, whose   *)
(* package map keeps the top-level definitions of the earlier calls.       *)
(***************************************************************************)
MaxReparses == 2

\* a type alias: type A int
Rp01 ==
  <<"t", "y", "p", "e", " ", "A", " ", "i", "n", "t">>

\* a struct type: type A { x int }
Rp02 ==
  <<"t", "y", "p", "e", " ", "A", " ", "{", " ", "x", " ", "i", "n", "t",
    " ", "}">>

\* a parameter of the type A: fun a(x A) {}
Rp03 ==
  <<"f", "u", "n", " ", "a", "(", "x", " ", "A", ")", " ", "{", "}">>

\* an alias of the type A: type B A
Rp04 ==
  <<"t", "y", "p", "e", " ", "B", " ", "A">>

\* a function: fun b() {}
Rp05 ==
  <<"f", "u", "n", " ", "b", "(", ")", " ", "{", "}">>

\* a method of the type A: fun A.g() {}
Rp06 ==
  <<"f", "u", "n", " ", "A", ".", "g", "(", ")", " ", "{", "}">>

\* a function named as the type, then a use of the name: fun A() {}\nfun c(x A) {}
Rp07 ==
  <<"f", "u", "n", " ", "A", "(", ")", " ", "{", "}", LF, "f", "u", "n", " ",
    "c", "(", "x", " ", "A", ")", " ", "{", "}">>

ReparseInputs == {Rp01, Rp02, Rp03, Rp04, Rp05, Rp06, Rp07}

InitReparse ==
  /\ \E debug \in BOOLEAN :
       par = [p |-> [parser_init EXCEPT !.debug = debug, !.ma_left = MaxAllocs],
              unit |-> NULL, calls |-> 0, input |-> <<>>, inputs |-> <<>>,
              before |-> parser_init]
  /\ scn = Idle
  /\ uni = Idle
  /\ tim = Idle

\* parser_parse on the parser that the earlier calls left; before is that
\* parser, and inputs the texts of the calls so far.
Reparse ==
  /\ par.calls < MaxReparses
  /\ ~Aborted(par.p)
  /\ \E input \in ReparseInputs :
       \E r \in {call("parser_parse", <<Observe(par.p), MaxAllocs, input, NUL>>)} :
          par' = [p |-> r.p, unit |-> r.unit, calls |-> par.calls + 1,
                  input |-> input, inputs |-> Append(par.inputs, input),
                  before |-> par.p]
  /\ UNCHANGED <<scn, uni, tim>>

NextReparse == Reparse

SpecReparse == InitReparse /\ [][NextReparse]_vars

(***************************************************************************)
(* Type names in the package scope.                                        *)
(***************************************************************************)
sym_A == <<"A">>

\* The lookups of the last call of parser_parse, as indices of its log.
Lookups == {l \in 1..Len(par.p.log) : par.p.log[l].ev = "lookup"}

\* The calls so far declared A as a type and as nothing else.
OnlyTypeA == \A i \in 1..Len(par.inputs) : par.inputs[i] # Rp07
DeclaredTypeA ==
  /\ OnlyTypeA
  /\ \E i \in 1..Len(par.inputs) : par.inputs[i] \in {Rp01, Rp02}

\* C21: after a top-level "type NAME TYPE", NAME denotes a type in the
\* current scope and in the package scope: the package map holds a type node
\* for NAME, every lookup of NAME returns a type node, also a lookup in a
\* later call of parser_parse, and no "is not a type" error is reported.
C21_TypeInPackageScope ==
  par.calls > 0 /\ ~Aborted(par.p) /\ DeclaredTypeA =>
    /\ sym_A \in DOMAIN par.p.pkgdefs
    /\ nodekind_istype(par.p.heap[par.p.pkgdefs[sym_A]].kind)
    /\ \A l \in Lookups :
         par.p.log[l].name = sym_A /\ par.p.log[l].node # NULL =>
           nodekind_istype(par.p.heap[par.p.log[l].node].kind)
    /\ CountOf(par.p.s.diag, "is not a type") = 0

\* What holds instead: the lookups of the call that parses the declaration
\* return a type node, from the current scope.
C21_TypeInCurrentScope ==
  par.calls > 0 /\ ~Aborted(par.p) /\ DeclaredTypeA
  /\ (\A i \in 1..(Len(par.inputs) - 1) : par.inputs[i] \notin {Rp01, Rp02}) =>
    \A l \in Lookups :
      par.p.log[l].name = sym_A /\ par.p.log[l].node # NULL =>
        nodekind_istype(par.p.heap[par.p.log[l].node].kind)

(***************************************************************************)
(* SpecScope: the scope stack under scope_clear, scope_push, scope_def,    *)
(* scope_pop and scope_lookup.  par.s is the scope_t; par.frames is what   *)
(* the operations were asked for: the bindings <<key, value>> made outside *)
(* of every scope, then those of each open scope, innermost last; par.look *)
(* is the last operation if that was a lookup.                             *)
(***************************************************************************)
MaxScopeLen == 6

ScopeKeys == {<<"a">>, <<"b">>}
ScopeValues == {1, 2}
ScopeDepths == {0, 1, U32_MAX}
NoLookup == [asked |-> FALSE]

\* The indices of ptr that the loop of scope_lookup compares with the key.
RECURSIVE scope_lookup_compares(_, _, _, _, _)
scope_lookup_compares(s, key, i, base, maxdepth) ==
  IF ~(i > 1) THEN {}
  ELSE LET j == i - 1
       IN IF j = base
          THEN IF maxdepth = 0 THEN {}
               ELSE scope_lookup_compares(s, key, j, scope_base_at(s, j), maxdepth - 1)
          ELSE IF s.ptr[j + 1] = SlotSym(key) THEN {j}
               ELSE {j} \cup scope_lookup_compares(s, key, j - 1, base, maxdepth)

InitScope ==
  /\ par = [s |-> scope_init, frames |-> << <<>> >>, look |-> NoLookup]
  /\ scn = Idle
  /\ uni = Idle
  /\ tim = Idle

ScopeClear ==
  /\ par' = [s |-> scope_clear(par.s), frames |-> << <<>> >>, look |-> NoLookup]
  /\ UNCHANGED <<scn, uni, tim>>

ScopePush ==
  /\ par.s.len + 1 <= MaxScopeLen
  /\ \E mem_ok \in BOOLEAN :
       \E r \in {scope_push(par.s, mem_ok)} :
          par' = [s |-> r.s,
                  frames |-> IF r.ok THEN Append(par.frames, <<>>) ELSE par.frames,
                  look |-> NoLookup]
  /\ UNCHANGED <<scn, uni, tim>>

ScopeDef ==
  /\ par.s.len + 2 <= MaxScopeLen
  /\ \E mem_ok \in BOOLEAN, key \in ScopeKeys, value \in ScopeValues :
       \E r \in {scope_def(par.s, mem_ok, key, value)} :
          par' = [s |-> r.s,
                  frames |-> IF r.ok
                             THEN [par.frames EXCEPT ![Len(par.frames)] =
                                     Append(@, <<key, value>>)]
                             ELSE par.frames,
                  look |-> NoLookup]
  /\ UNCHANGED <<scn, uni, tim>>

\* scope_pop of a scope that was pushed.
ScopePop ==
  /\ Len(par.frames) > 1
  /\ par' = [s |-> scope_pop(par.s),
             frames |-> SubSeq(par.frames, 1, Len(par.frames) - 1),
             look |-> NoLookup]
  /\ UNCHANGED <<scn, uni, tim>>

ScopeLookup ==
  /\ \E key \in ScopeKeys, maxdepth \in ScopeDepths :
       par' = [par EXCEPT !.look =
                 [asked |-> TRUE, key |-> key, maxdepth |-> maxdepth,
                  n |-> scope_lookup(par.s, key, maxdepth),
                  compares |-> scope_lookup_compares(par.s, key, par.s.len, par.s.base,
                                                     maxdepth)]]
  /\ UNCHANGED <<scn, uni, tim>>

NextScope == ScopeClear \/ ScopePush \/ ScopeDef \/ ScopePop \/ ScopeLookup

SpecScope == InitScope /\ [][NextScope]_vars

(***************************************************************************)
(* The layout of the scope stack.                                          *)
(***************************************************************************)
\* A scope is open: a scope_push since the last scope_clear was not popped.
ScopeOpen == Len(par.frames) > 1

\* One saved base at ptr[base], then whole value/key pairs up to len.
WholePairs ==
  /\ par.s.ptr[par.s.base + 1][1] = "base"
  /\ \A i \in (par.s.base + 1)..(par.s.len - 1) :
       par.s.ptr[i + 1][1] = IF (i - par.s.base) % 2 = 1 THEN "node" ELSE "sym"

\* The base of the scope that encloses the current one: the sum of the sizes
\* of the enclosing scopes but the innermost of them.
RECURSIVE FrameSizes(_, _)
FrameSizes(frames, k) ==
  IF k = 0 THEN 0
  ELSE FrameSizes(frames, k - 1) + 2 * Len(frames[k]) + (IF k > 1 THEN 1 ELSE 0)
EnclosingBase ==
  IF Len(par.frames) > 2 THEN FrameSizes(par.frames, Len(par.frames) - 2) ELSE 0

\* C22 as stated: in every reachable state of the scope stack len - base is
\* odd: one saved base at ptr[base], then whole value/key pairs, and
\* ptr[base] holds the base of the enclosing scope.
C22_LenBaseOdd ==
  /\ (par.s.len - par.s.base) % 2 = 1
  /\ WholePairs
  /\ par.s.ptr[par.s.base + 1] = SlotBase(EnclosingBase)

\* C22, amended: in every reachable state in which a scope is open,
\* len - base is odd: one saved base at ptr[base], then whole value/key
\* pairs, and ptr[base] holds the base of the enclosing scope.
C22_LenBaseOddInScope ==
  ScopeOpen =>
    /\ (par.s.len - par.s.base) % 2 = 1
    /\ WholePairs
    /\ par.s.ptr[par.s.base + 1] = SlotBase(EnclosingBase)

\* A scope in a scope, with bindings in both, after a scope was popped.
C22_Witness ==
  /\ Len(par.frames) = 3
  /\ Len(par.frames[2]) > 0
  /\ Len(par.frames[3]) > 0
  /\ par.s.base = 3

(***************************************************************************)
(* scope_lookup.                                                           *)
(***************************************************************************)
\* The bindings of the current scope and of at most maxdepth enclosing
\* scopes, oldest first.
RECURSIVE Flatten(_, _, _)
Flatten(frames, lo, hi) ==
  IF lo > hi THEN <<>> ELSE frames[lo] \o Flatten(frames, lo + 1, hi)
VisibleBindings(maxdepth) ==
  Flatten(par.frames,
          IF maxdepth >= Len(par.frames) THEN 1 ELSE Len(par.frames) - maxdepth,
          Len(par.frames))
\* The value of the most recent of them for the key, or NULL.
MostRecent(key, maxdepth) ==
  LET b == VisibleBindings(maxdepth)
      at == {i \in 1..Len(b) : b[i][1] = key}
  IN IF at = {} THEN NULL
     ELSE b[CHOOSE i \in at : \A j \in at : j <= i][2]

\* C23: after any sequence of push, define and pop, scope_lookup(key,
\* maxdepth) returns the value of the most recently defined binding of key
\* among the bindings of the current scope and of at most maxdepth enclosing
\* scopes, and null when there is none; bindings of popped scopes are never
\* returned, and a saved base is never compared with the key nor returned.
C23_LookupMostRecent ==
  par.look.asked =>
    /\ par.look.n = MostRecent(par.look.key, par.look.maxdepth)
    /\ \A j \in par.look.compares : j < par.s.len /\ par.s.ptr[j + 1][1] = "sym"

\* A lookup that passes a scope without the key and finds the key in the
\* enclosing scope, above the binding that a popped scope left for the key.
C23_Witness ==
  /\ par.look.asked
  /\ par.look.n # NULL
  /\ par.look.maxdepth = 1
  /\ Len(par.frames) = 3
  /\ \A i \in 1..Len(par.frames[3]) : par.frames[3][i][1] # par.look.key
  /\ par.s.cap > par.s.len + 1
  /\ \E i \in par.s.len..(par.s.cap - 1) : par.s.ptr[i + 1] = SlotSym(par.look.key)

\* A lookup that stops at the current scope although an enclosing scope
\* binds the key.
C23_WitnessDepth ==
  /\ par.look.asked
  /\ par.look.n = NULL
  /\ par.look.maxdepth = 0
  /\ MostRecent(par.look.key, 1) # NULL

(***************************************************************************)
(* Reference counts through a narrowing.                                   *)
(***************************************************************************)
\* The lookups of x that found a binding.
FoundX == {l \in LookupsOfX : par.p.log[l].node # NULL}

C24_RefsOfOriginalOnly ==
  par.calls = 1 /\ ~Aborted(par.p) /\ Narrowings # {} =>
    par.p.heap[par.orig].nrefs =
      par.pre.nrefs + Cardinality({l \in FoundX : par.p.log[l].node = par.orig})


(***************************************************************************)
(* Literals under a prefix operator.                                       *)
(***************************************************************************)
\* The prefix operations whose operand is a literal: <<operation, literal>>.
PrefixLiterals ==
  {m \in (DOMAIN par.p.heap) \X (DOMAIN par.p.heap) :
     /\ par.p.heap[m[1]].kind = "EXPR_PREFIXOP"
     /\ par.p.heap[m[1]].expr = m[2]
     /\ par.p.heap[m[2]].kind \in {"EXPR_INTLIT", "EXPR_FLOATLIT"}}

\* C25: expr_prefix_op calls the literal parselet with is-neg = true iff the
\* operator is unary minus, and with the flags of the caller: under any
\* other prefix operator an integer literal gets the type of a non-negative
\* value (int up to 0x7fffffff), the sign slot of a float literal is not
\* overwritten, and the literal has the flag of an rvalue.
C25_IsNegIffMinus ==
  par.calls = 1 =>
    \A m \in PrefixLiterals :
      LET op == par.p.heap[m[1]].op
          e == par.p.heap[m[2]]
      IN /\ "RVALUE" \in e.flags
         /\ (op # "MINUS" /\ e.kind = "EXPR_INTLIT") =>
              (e.type = type_int <=> U64LessEq(e.intval, Pow31Less1))
         /\ (op # "MINUS" /\ e.kind = "EXPR_FLOATLIT") =>
              (e.f64val = <<>> \/ e.f64val[1] # "-")

\* What the code does: the literal is parsed as negative under every prefix
\* operator, and its flags are those of the literal parselet alone.
C25_AlwaysNegative ==
  par.calls = 1 =>
    \A m \in PrefixLiterals :
      LET e == par.p.heap[m[2]]
      IN /\ "RVALUE" \notin e.flags
         /\ e.kind = "EXPR_FLOATLIT" => (e.f64val = <<>> \/ e.f64val[1] = "-")
         /\ e.kind = "EXPR_INTLIT" =>
              (e.type = type_int <=> U64LessEq(e.intval, Pow31))


(***************************************************************************)
(* The sign slot of the buffer of a float literal.                         *)
(***************************************************************************)
FloatInputs == {Nrw06, Nrw07, Nrw08, Nrw09}

\* The text of the float literal of the input: the input after its prefix
\* operator.
FloatText ==
  IF par.input # <<>> /\ par.input[1] \in {"+", "~"} THEN Tail(par.input) ELSE par.input

\* C26: the literal buffer of a float literal begins with a reserved sign
\* character that precedes the text of the literal, so after floatlit,
\* whether it has written '-' to litbuf[0] or not, the buffer is a sign
\* followed by the complete text of the literal.
C26_SignSlotReserved ==
  (par.calls = 1 /\ par.input \in FloatInputs) =>
    /\ par.p.s.litbuf # <<>>
    /\ par.p.s.litbuf[1] \in {"+", "-"}
    /\ Tail(par.p.s.litbuf) = FloatText

\* What the code does: the buffer is the text of the literal, with no sign
\* slot, and under a prefix operator its first character is replaced by '-'.
C26_FirstCharacterLost ==
  (par.calls = 1 /\ par.input \in FloatInputs) =>
    /\ Len(par.p.s.litbuf) = Len(FloatText)
    /\ Tail(par.p.s.litbuf) = Tail(FloatText)
    /\ par.p.s.litbuf[1] = IF PrefixLiterals # {} THEN "-" ELSE FloatText[1]


(***************************************************************************)
(* Out of memory.                                                          *)
(***************************************************************************)
\* How many times the diagnostic "out of memory" was reported.
OomReports ==
  Cardinality({i \in 1..Len(par.p.s.diag) : par.p.s.diag[i] = "out of memory"})

\* The tokens fetched after the first failure: trace holds, for each call
\* of next, the token that was current before it.
FetchedAfterOom ==
  {par.p.trace[k][1] : k \in (par.p.oomnext + 2)..Len(par.p.trace)} \cup
  (IF par.p.nnext > par.p.oomnext THEN {currtok(par.p)} ELSE {})

\* C27: when allocation fails during a call of parser_parse, once or
\* several times, "out of memory" is reported exactly once, and from the
\* first failure on every token fetched is EOF.
C27_OomReportedOnce ==
  (Returned /\ par.p.noom > 0) =>
    /\ OomReports = 1
    /\ FetchedAfterOom \subseteq {"EOF"}


\* What the code does: each failure reports unless the current token is
\* already EOF, and after the first failure the scanner yields at most an
\* implicit semicolon before EOF.
C27_OomReportedPerFailure ==
  (Returned /\ par.p.noom > 0) =>
    /\ OomReports <= par.p.noom
    /\ FetchedAfterOom \subseteq {"SEMI", "EOF"}
    /\ par.p.s.inp = inend(par.p.s)


(***************************************************************************)
(* The type context across a call expression.                              *)
(***************************************************************************)
\* The calls that had arguments to parse.
CallsWithArgs ==
  {c \in DOMAIN par.p.heap :
     par.p.heap[c].kind = "EXPR_CALL" /\ par.p.heap[c].args # <<>>}

\* C28: parsing the arguments of a call leaves the type context as it found
\* it: after an expression with calls has been parsed, p->typectx and the
\* depth of typectxstack are what they were before it.
C28_TypectxBalanced ==
  (par.calls = 1 /\ CallsWithArgs # {}) =>
    /\ par.p.typectx = par.ctx.typectx
    /\ Len(par.p.typectxstack) = par.ctx.depth

\* What the code does: each call of args leaves one entry on the stack.
C28_TypectxLeaksPerArgs ==
  par.calls = 1 =>
    Len(par.p.typectxstack) = par.ctx.depth + Cardinality(CallsWithArgs)


(***************************************************************************)
(* Injectivity of the type ids.                                            *)
(***************************************************************************)
\* Two types are structurally the same: the same node, or nodes of the same
\* kind and mutability over structurally equal elements.
RECURSIVE SameType(_, _)
SameType(a, b) ==
  \/ a = b
  \/ /\ a # NULL /\ b # NULL
     /\ par.p.heap[a].kind = par.p.heap[b].kind
     /\ par.p.heap[a].kind \in {"TYPE_REF", "TYPE_PTR", "TYPE_OPTIONAL"}
     /\ par.p.heap[a].ismut = par.p.heap[b].ismut
     /\ SameType(par.p.heap[a].elem, par.p.heap[b].elem)

\* The functions parsed that have a function type.
TypedFuns ==
  {f \in DOMAIN par.p.heap :
     /\ par.p.heap[f].kind = "EXPR_FUN"
     /\ par.p.heap[f].type # NULL
     /\ par.p.heap[par.p.heap[f].type].kind = "TYPE_FUN"}

\* The types of the parameters of function f.
ParamTypes(f) ==
  [i \in 1..Len(par.p.heap[f].params) |-> par.p.heap[par.p.heap[f].params[i]].type]

\* C29: the type ids are injective: the primitive types have pairwise
\* different one-byte ids, a reference and a mutable reference to the same
\* type have different ids, and two functions whose types are interned to
\* one node have parameters of structurally the same types.
C29_TypeidInjective ==
  Returned =>
    /\ \A a, b \in {type_bool, type_int, type_uint, type_i8, type_i16, type_i32,
                    type_i64, type_u8, type_u16, type_u32, type_u64, type_f32,
                    type_f64} :
         a # b => par.p.heap[a].tid # par.p.heap[b].tid
    /\ \A a, b \in DOMAIN par.p.heap :
         (/\ par.p.heap[a].kind = "TYPE_REF" /\ par.p.heap[b].kind = "TYPE_REF"
          /\ par.p.heap[a].tid # <<>>
          /\ par.p.heap[a].tid = par.p.heap[b].tid) => SameType(a, b)
    /\ \A f, g \in TypedFuns :
         par.p.heap[f].type = par.p.heap[g].type =>
           /\ Len(ParamTypes(f)) = Len(ParamTypes(g))
           /\ \A i \in 1..Len(ParamTypes(f)) : SameType(ParamTypes(f)[i], ParamTypes(g)[i])


(***************************************************************************)
(* A rejected redefinition.                                                *)
(***************************************************************************)
\* The calls of define that reported a redefinition, as indices of the log.
RejectedDefines ==
  {i \in 1..Len(par.p.log) : par.p.log[i].ev = "define" /\ par.p.log[i].ndiag > 0}

\* C30: a define that is rejected as a redefinition changes neither the
\* scope stack nor the package map, and when the name was in the package map
\* from an earlier call of parser_parse, every later lookup of it still
\* returns the node of that earlier definition.
C30_RejectedDefineNoEffect ==
  (par.calls > 0 /\ ~Aborted(par.p)) =>
    \A i \in RejectedDefines :
      LET e == par.p.log[i]
      IN /\ ~e.bound
         /\ ~e.inpkg
         /\ (e.top /\ e.pkg) =>
              \A j \in (i + 1)..Len(par.p.log) :
                (par.p.log[j].ev = "lookup" /\ par.p.log[j].name = e.name) =>
                  par.p.log[j].node = par.before.pkgdefs[e.name]

\* What the code does: the package map is left alone, but a redefinition
\* that only the package map detects has already made its binding in the
\* scope, and the lookups that follow return the rejected node.
C30_RejectedDefineBound ==
  (par.calls > 0 /\ ~Aborted(par.p)) =>
    \A i \in RejectedDefines :
      LET e == par.p.log[i]
      IN /\ ~e.inpkg
         /\ e.bound <=> ~e.cur
         /\ (e.top /\ e.pkg /\ e.bound) =>
              \A j \in (i + 1)..Len(par.p.log) :
                (par.p.log[j].ev = "lookup" /\ par.p.log[j].name = e.name) =>
                  par.p.log[j].node = e.node

====
